---- MODULE Spec2Model ----
(***************************************************************************)
(* State-conditioned forward-return analytics engine:                      *)
(*   indicators.py -> market_regime.py -> backtest_runner.py ->            *)
(*   backtest_aggregator.py -> forward_expectations.py                     *)
(*                                                                         *)
(* Number representation.  Prices and volumes are integers.  Python floats *)
(* are modelled in fixed point: a percentage p is the integer PCT * p, a   *)
(* moving average a is the integer PCT * a, both truncated by \div.        *)
(* An optional number is a tuple: None == <<>>, NaN == <<0, 0>>, and the   *)
(* number x is <<x>>.                                                      *)
(***************************************************************************)
EXTENDS Integers, Sequences, FiniteSets, TLC

VARIABLES
    full_history,       \* backtest_runner: rows of the history file (sorted by date)
    loadable,           \* backtest_runner: load_full_history returns a frame
    observation_dates,  \* run_backtest: the walked dates
    i,                  \* run_backtest: loop index into observation_dates (0-based)
    records,            \* run_backtest: the list of records
    skipped,            \* run_backtest: the skip counter
    pc,                 \* position of the running job
    other_history,      \* a second full history (no-look-ahead comparison)
    target_date,        \* the date both histories are evaluated at
    state_a,            \* compute_state_for_date(full_history, target_date)
    state_b,            \* compute_state_for_date(other_history, target_date)
    market_a,           \* state encoder: a Market State (five pillar values)
    market_b,           \* state encoder: a second Market State
    keys,               \* state encoder: the keys computed for market_a, market_b
    backtest_df,        \* aggregator: the rows of backtest_<metal>.csv
    min_samples,        \* aggregator: the min_samples argument
    agg_df,             \* aggregator: the aggregated table
    agg_file,           \* expectation server: backtest_<metal>_agg.csv
    current_five_pillar,\* expectation server: the live five-pillar analysis
    response,           \* expectation server: the returned dict
    live_indicators,    \* market_regime: the indicator snapshot given to the analysis
    live_tailwind,      \* market_regime: the macro tailwind dict
    live_cot,           \* market_regime: the positioning (COT) dict
    live_pillars,       \* market_regime: the result of get_five_pillar_analysis
    loaded_stats,       \* expectation server: what load_aggregated_stats last read
    old_file,           \* aggregator: the table file as the last completed save left it
    gap_date,           \* walker: the date whose Close cell is empty in the history file (0: none)
    live_mean,          \* expectation server: a mean return given to classify_expected_return
    live_direction,     \* expectation server: the label classify_expected_return gave
    prediction_log,     \* prediction tracker: the rows of prediction_log.csv
    log_sessions,       \* prediction tracker: each session's position in its call
    price_history       \* prediction tracker: the bars of the metal's history file

vars == <<full_history, loadable, observation_dates, i, records, skipped, pc,
          other_history, target_date, state_a, state_b,
          market_a, market_b, keys,
          backtest_df, min_samples, agg_df,
          agg_file, current_five_pillar, response,
          live_indicators, live_tailwind, live_cot, live_pillars,
          loaded_stats, old_file, gap_date,
          live_mean, live_direction,
          prediction_log, log_sessions, price_history>>

walkvars == <<full_history, loadable, observation_dates, i, records, skipped, pc>>
lookvars == <<other_history, target_date, state_a, state_b>>
encvars == <<market_a, market_b, keys>>
aggvars == <<backtest_df, min_samples, agg_df>>
servevars == <<agg_file, current_five_pillar, response>>
mainvars == <<loaded_stats, old_file>>
dirvars == <<live_mean, live_direction>>
trackvars == <<prediction_log, log_sessions, price_history>>
lastvars == <<dirvars, trackvars>>
latervars == <<gap_date, lastvars>>
extvars == <<live_indicators, live_tailwind, live_cot, live_pillars, mainvars, latervars>>

\* the values of the variables a specification does not use
WalkIdle ==
    /\ full_history = <<>>
    /\ loadable = TRUE
    /\ observation_dates = <<>>
    /\ i = 0
    /\ records = <<>>
    /\ skipped = 0

LookIdle ==
    /\ other_history = <<>>
    /\ target_date = 0
    /\ state_a = "pending"
    /\ state_b = "pending"

EncIdle ==
    /\ market_a = <<>>
    /\ market_b = <<>>
    /\ keys = <<>>

AggIdle ==
    /\ backtest_df = <<>>
    /\ min_samples = 0
    /\ agg_df = <<>>

ServeIdle ==
    /\ agg_file = <<>>
    /\ current_five_pillar = <<>>
    /\ response = <<>>

MainIdle ==
    /\ loaded_stats = <<>>
    /\ old_file = <<>>

DirIdle ==
    /\ live_mean = <<>>
    /\ live_direction = ""

TrackIdle ==
    /\ prediction_log = <<>>
    /\ log_sessions = <<>>
    /\ price_history = <<>>

LastIdle ==
    /\ DirIdle
    /\ TrackIdle

LaterIdle ==
    /\ gap_date = 0
    /\ LastIdle

ExtIdle ==
    /\ live_indicators = <<>>
    /\ live_tailwind = <<>>
    /\ live_cot = <<>>
    /\ live_pillars = <<>>
    /\ MainIdle
    /\ LaterIdle

\* every variable declared before lastvars, pc excepted
earliervars == <<full_history, loadable, observation_dates, i, records, skipped,
                 lookvars, encvars, aggvars, servevars,
                 live_indicators, live_tailwind, live_cot, live_pillars,
                 mainvars, gap_date>>

EarlierIdle ==
    /\ WalkIdle /\ LookIdle /\ EncIdle /\ AggIdle /\ ServeIdle
    /\ live_indicators = <<>>
    /\ live_tailwind = <<>>
    /\ live_cot = <<>>
    /\ live_pillars = <<>>
    /\ MainIdle
    /\ gap_date = 0

-----------------------------------------------------------------------------
(* Program constants *)
WARMUP_DAYS == 220
FORWARD_WINDOW == 20
PCT == 10 * 10

(* Bounds of the model *)
ExtraBars == 3          \* histories hold up to WARMUP_DAYS + FORWARD_WINDOW + ExtraBars bars
TailLen == 2            \* number of trailing bars whose close is chosen freely

-----------------------------------------------------------------------------
(* Optional numbers *)
None == <<>>
NaN == <<0, 0>>
Num(x) == <<x>>
IsNum(v) == Len(v) = 1
Val(v) == v[1]

Abs(x) == IF x < 0 THEN -x ELSE x
Min2(a, b) == IF a < b THEN a ELSE b
Max2(a, b) == IF a > b THEN a ELSE b

\* float comparisons: any comparison with NaN is False
Gt(a, b) == IsNum(a) /\ IsNum(b) /\ Val(a) > Val(b)
Lt(a, b) == IsNum(a) /\ IsNum(b) /\ Val(a) < Val(b)

\* arithmetic on floats in fixed point: division truncates toward zero
Div(a, b) == IF a >= 0 THEN a \div b ELSE -((-a) \div b)

\* a key absent from a dict: Missing where the values are strings, Absent
\* where they are optional numbers
Missing == "<missing>"
Absent == <<0, 0, 0>>

\* dict.get(key, default) on a string value
GetOr(v, default) == IF v = Missing THEN default ELSE v

-----------------------------------------------------------------------------
(* The OHLCV histories the model walks.  A bar is a row of the history     *)
(* file: [date, close, high, low, volume]; rows are sorted by date and     *)
(* dates are unique (load_full_history sorts the index).                   *)

Shapes == {"up", "down", "flat"}
TailDeltas == {-9, 9}

\* calendar date of the k-th trading day: five trading days, then a weekend
DateOf(k) == k + 2 * ((k - 1) \div 5)

BodyClose(shape, k) ==
    CASE shape = "up"   -> 100 + k - 2 * (k % 4)
      [] shape = "down" -> 400 - k + 2 * (k % 4)
      [] OTHER          -> 100 + (k % 4) + (k % 3)

MkHistory(shape, n, tail) ==
    [k \in 1..n |->
        LET c == IF k > n - TailLen
                 THEN BodyClose(shape, k) + tail[k - (n - TailLen)]
                 ELSE BodyClose(shape, k)
        IN  [date |-> DateOf(k), close |-> c, high |-> c + 1, low |-> c - 1,
             volume |-> 10 + ((3 * k) % 7)]]

MinBars == WARMUP_DAYS + FORWARD_WINDOW - 1
MaxBars == WARMUP_DAYS + FORWARD_WINDOW + ExtraBars

Histories ==
    {MkHistory(s, n, t) : s \in Shapes, n \in MinBars..MaxBars,
                          t \in [1..TailLen -> TailDeltas]}

-----------------------------------------------------------------------------
(* indicators.py *)

\* Then(v, e) is e; it makes the evaluation compute v before e, which keeps
\* the evaluation of a fold over hundreds of bars shallow
Then(v, e) == IF v = v THEN e ELSE e

\* sums and folds over a series split the range in halves, so that the depth
\* of the evaluation grows with the logarithm of the number of bars
RECURSIVE SumRange(_, _, _)
SumRange(s, a, b) ==
    IF a > b THEN 0
    ELSE IF a = b THEN s[a]
    ELSE LET mid == (a + b) \div 2
         IN  SumRange(s, a, mid) + SumRange(s, mid + 1, b)

RECURSIVE MaxRange(_, _, _)
MaxRange(s, a, b) ==
    IF a >= b THEN s[b]
    ELSE LET mid == (a + b) \div 2
         IN  Max2(MaxRange(s, a, mid), MaxRange(s, mid + 1, b))

RECURSIVE MinRange(_, _, _)
MinRange(s, a, b) ==
    IF a >= b THEN s[b]
    ELSE LET mid == (a + b) \div 2
         IN  Min2(MinRange(s, a, mid), MinRange(s, mid + 1, b))

CloseOf(df) == [k \in 1..Len(df) |-> df[k].close]

\* sma(series, window) at position k: rolling mean, NaN before the window fills
sma(series, window, k) ==
    IF k < window THEN NaN
    ELSE Num((SumRange(series, k - window + 1, k) * PCT) \div window)

\* sma_slope(sma(close, window), lookback): percent change of the average
\* between the first and the last of its last `lookback` defined values
sma_slope(close, window, lookback) ==
    LET n == Len(close) IN
    IF n - window + 1 < lookback THEN 0
    ELSE LET start_val == Val(sma(close, window, n - lookback + 1))
             end_val   == Val(sma(close, window, n))
         IN  IF start_val = 0 THEN 0
             ELSE Div((end_val - start_val) * 100 * PCT, start_val)

\* adx(high, low, close, period): Wilder smoothing (ewm alpha = 1/period,
\* adjust=False) of true range, +DM, -DM and DX, one pass over the bars.
\* atr, pdm, mdm carry ADX_SCALE; adx is a percentage (PCT).
ADX_SCALE == 10 * 10 * 10

AdxStep(acc, prev, bar, period) ==
    LET tr   == Max2(bar.high - bar.low,
                     Max2(Abs(bar.high - prev.close), Abs(bar.low - prev.close)))
        up   == bar.high - prev.high
        dn   == prev.low - bar.low
        pdmx == IF up > dn /\ up > 0 THEN up ELSE 0
        mdmx == IF dn > up /\ dn > 0 THEN dn ELSE 0
        atr  == acc.atr + Div(tr * ADX_SCALE - acc.atr, period)
        pdm  == acc.pdm + Div(pdmx * ADX_SCALE - acc.pdm, period)
        mdm  == acc.mdm + Div(mdmx * ADX_SCALE - acc.mdm, period)
        pdi  == IF atr = 0 THEN NaN ELSE Num((100 * PCT * pdm) \div atr)
        mdi  == IF atr = 0 THEN NaN ELSE Num((100 * PCT * mdm) \div atr)
        dx   == IF ~IsNum(pdi) \/ ~IsNum(mdi) \/ Val(pdi) + Val(mdi) = 0 THEN NaN
                ELSE Num((100 * Abs(Val(pdi) - Val(mdi)) * PCT)
                          \div (Val(pdi) + Val(mdi)))
        adxv == IF ~IsNum(dx) THEN acc.adx
                ELSE IF ~IsNum(acc.adx) THEN dx
                ELSE Num(Val(acc.adx) + Div(Val(dx) - Val(acc.adx), period))
    IN  [atr |-> atr, pdm |-> pdm, mdm |-> mdm, adx |-> adxv]

RECURSIVE AdxFold(_, _, _, _, _)
AdxFold(df, acc, a, b, period) ==
    IF a > b THEN acc
    ELSE IF a = b THEN AdxStep(acc, df[a - 1], df[a], period)
    ELSE LET mid  == (a + b) \div 2
             left == AdxFold(df, acc, a, mid, period)
         IN  Then(left, AdxFold(df, left, mid + 1, b, period))

adx(df, period) ==
    AdxFold(df, [atr |-> (df[1].high - df[1].low) * ADX_SCALE, pdm |-> 0,
                 mdm |-> 0, adx |-> NaN],
            2, Len(df), period).adx

\* classify_trend(close, sma20, sma50, sma200)
classify_trend(current, sma20, sma50, sma200) ==
    IF sma20 = None \/ sma50 = None \/ sma200 = None THEN "unknown"
    ELSE
    LET above_count == (IF Gt(current, sma20) THEN 1 ELSE 0)
                     + (IF Gt(current, sma50) THEN 1 ELSE 0)
                     + (IF Gt(current, sma200) THEN 1 ELSE 0)
        ma_bullish == Gt(sma20, sma50) /\ Gt(sma50, sma200)
        ma_bearish == Lt(sma20, sma50) /\ Lt(sma50, sma200)
    IN  IF Gt(current, sma20) /\ ma_bullish THEN "uptrend"
        ELSE IF Lt(current, sma20) /\ ma_bearish THEN "downtrend"
        ELSE IF above_count >= 2 /\ ma_bullish THEN "uptrend"
        ELSE IF above_count <= 1 /\ ma_bearish THEN "downtrend"
        ELSE "chop"


Le(a, b) == IsNum(a) /\ IsNum(b) /\ Val(a) <= Val(b)
Ge(a, b) == IsNum(a) /\ IsNum(b) /\ Val(a) >= Val(b)

\* rsi(series, window) at position k: rolling means of the gains and of the
\* losses over `window` differences; 100 - 100/(1 + up/down)
\* the rolling sums move one bar at a time: the difference entering the
\* window is added, the one leaving it is removed
Gain(series, k) == IF k < 2 THEN 0 ELSE Max2(series[k] - series[k - 1], 0)
Loss(series, k) == IF k < 2 THEN 0 ELSE Max2(series[k - 1] - series[k], 0)

RsiValue(up, down) ==
    IF down = 0 THEN (IF up = 0 THEN NaN ELSE Num(100 * PCT))
    ELSE Num((100 * PCT * up) \div (up + down))

RsiStep(acc, series, window, k) ==
    LET up   == acc.up + Gain(series, k) - Gain(series, k - window)
        down == acc.down + Loss(series, k) - Loss(series, k - window)
    IN  [up |-> up, down |-> down,
         out |-> Append(acc.out, IF k < window + 1 THEN NaN ELSE RsiValue(up, down))]

RECURSIVE RsiFold(_, _, _, _, _)
RsiFold(series, acc, window, a, b) ==
    IF a > b THEN acc
    ELSE IF a = b THEN RsiStep(acc, series, window, a)
    ELSE LET mid  == (a + b) \div 2
             left == RsiFold(series, acc, window, a, mid)
         IN  Then(left, RsiFold(series, left, window, mid + 1, b))

rsi(series, window) ==
    RsiFold(series, [up |-> 0, down |-> 0, out |-> <<>>], window, 1, Len(series)).out

RsiSeries(close) == rsi(close, 14)

DropNa(series) == SelectSeq(series, IsNum)

\* analyze_rsi_momentum(rsi_series, lookback=5): only the fields the pillars read
analyze_rsi_momentum(rsi_series, lookback) ==
    LET d == DropNa(rsi_series)
        recent == SubSeq(d, Max2(1, Len(d) - lookback + 1), Len(d))
    IN  IF Len(recent) < 2 THEN [error |-> TRUE, current |-> None, direction |-> "flat"]
        ELSE LET current  == Val(recent[Len(recent)])
                 previous == Val(recent[1])
                 change   == current - previous
             IN  [error |-> FALSE, current |-> Num(current),
                  direction |-> IF change > 3 * PCT THEN "rising"
                                ELSE IF change < -3 * PCT THEN "falling"
                                ELSE "flat"]

\* ema(series, span): ewm(span, adjust=False); macd(close): one pass carrying
\* the two averages, the signal line and the last three histogram values
MACD_SCALE == 10 * 10 * 10

EmaStep(prev, x, span) == prev + Div(2 * (x - prev), span + 1)

MacdStep(acc, x) ==
    LET fast   == EmaStep(acc.fast, x * MACD_SCALE, 12)
        slow   == EmaStep(acc.slow, x * MACD_SCALE, 26)
        signal == EmaStep(acc.signal, fast - slow, 9)
        h      == (fast - slow) - signal
    IN  [fast |-> fast, slow |-> slow, signal |-> signal,
         hist |-> IF Len(acc.hist) < 3 THEN Append(acc.hist, h)
                  ELSE <<acc.hist[2], acc.hist[3], h>>]

RECURSIVE MacdFold(_, _, _, _)
MacdFold(close, acc, a, b) ==
    IF a > b THEN acc
    ELSE IF a = b THEN MacdStep(acc, close[a])
    ELSE LET mid  == (a + b) \div 2
             left == MacdFold(close, acc, a, mid)
         IN  Then(left, MacdFold(close, left, mid + 1, b))

macd(close) ==
    MacdFold(close, [fast |-> close[1] * MACD_SCALE, slow |-> close[1] * MACD_SCALE,
                     signal |-> 0, hist |-> <<0>>],
             2, Len(close))

\* histogram_slope(histogram, lookback=3): diff > 10% of |mean| of the last
\* three values, stated without the division: 30 * diff > |sum|
histogram_slope(recent) ==
    IF Len(recent) < 2 THEN "unknown"
    ELSE LET diff == recent[Len(recent)] - recent[1]
             sum  == SumRange(recent, 1, Len(recent))
             n    == Len(recent)
         IN  IF 10 * n * diff > Abs(sum) THEN "rising"
             ELSE IF 10 * n * diff < -Abs(sum) THEN "falling"
             ELSE "flat"

\* detect_swing_highs_lows(close, lookback=2): positions of the bars strictly
\* above (below) the two bars on each side; a comparison with NaN is False,
\* so it never clears is_high / is_low
is_high(w, k) ==
    \A j \in 1..2 : ~Le(w[k], w[k - j]) /\ ~Le(w[k], w[k + j])
is_low(w, k) ==
    \A j \in 1..2 : ~Ge(w[k], w[k - j]) /\ ~Ge(w[k], w[k + j])

swing_highs(w) == IF Len(w) < 5 THEN {} ELSE {k \in 3..(Len(w) - 2) : is_high(w, k)}
swing_lows(w)  == IF Len(w) < 5 THEN {} ELSE {k \in 3..(Len(w) - 2) : is_low(w, k)}

SetMax(S) == CHOOSE x \in S : \A y \in S : y <= x
Last1(S) == SetMax(S)
Last2(S) == SetMax(S \ {SetMax(S)})

\* detect_divergence(close, indicator, lookback=30); both series hold
\* optional numbers
detect_divergence(close, indicator, lookback) ==
    IF Len(close) < lookback \/ Len(indicator) < lookback THEN "None"
    ELSE
    LET rc == SubSeq(close, Len(close) - lookback + 1, Len(close))
        ri == SubSeq(indicator, Len(indicator) - lookback + 1, Len(indicator))
        ph == swing_highs(rc)
        ih == swing_highs(ri)
        pl == swing_lows(rc)
        il == swing_lows(ri)
    IN  IF /\ Cardinality(ph) >= 2 /\ Cardinality(ih) >= 2
           /\ Gt(rc[Last1(ph)], rc[Last2(ph)])
           /\ Lt(ri[Last1(ih)], ri[Last2(ih)])
        THEN "bearish"
        ELSE IF /\ Cardinality(pl) >= 2 /\ Cardinality(il) >= 2
                /\ Lt(rc[Last1(pl)], rc[Last2(pl)])
                /\ Gt(ri[Last1(il)], ri[Last2(il)])
        THEN "bullish"
        ELSE "None"

\* obv(close, volume): cumulative signed volume, first bar 0
Sign(x) == IF x > 0 THEN 1 ELSE IF x < 0 THEN -1 ELSE 0

SignedVolume(df) ==
    [j \in 1..Len(df) |->
        IF j = 1 THEN 0 ELSE Sign(df[j].close - df[j - 1].close) * df[j].volume]

\* obv at position k, given direction * volume
obv(signed, k) == SumRange(signed, 1, k)

\* up_down_volume_ratio(close, volume, lookback=10).  vol_ratio is the exact
\* fraction num/den, so that the thresholds compare without rounding.
RatioGt(r, num, den) == r.num * den > num * r.den
RatioLt(r, num, den) == r.num * den < num * r.den

interpret_ratio(r) ==
    IF RatioGt(r, 13, 10) THEN "strong_buying"
    ELSE IF RatioGt(r, 11, 10) THEN "buying"
    ELSE IF RatioLt(r, 7, 10) THEN "strong_selling"
    ELSE IF RatioLt(r, 9, 10) THEN "selling"
    ELSE "neutral"

NoUpDown == [error |-> TRUE, vol_ratio |-> [num |-> 1, den |-> 1],
             interpretation |-> "neutral"]

up_down_volume_ratio(df, lookback) ==
    LET n == Len(df) IN
    IF n < lookback + 1 THEN NoUpDown
    ELSE
    LET days      == (n - lookback + 1)..n
        ups       == {k \in days : df[k].close > df[k - 1].close}
        downs     == {k \in days : df[k].close < df[k - 1].close}
        vol       == [k \in 1..n |-> df[k].volume]
        PickSum(S) == SumRange([k \in 1..n |-> IF k \in S THEN vol[k] ELSE 0],
                               n - lookback + 1, n)
        up_volume   == PickSum(ups)
        down_volume == PickSum(downs)
        up_days     == Cardinality(ups)
        down_days   == Cardinality(downs)
        \* avg_up_vol = up_volume / up_days, avg_down_vol = down_volume / down_days
        ratio == IF down_days > 0 /\ down_volume > 0
                 THEN (IF up_days > 0
                       THEN [num |-> up_volume * down_days, den |-> up_days * down_volume]
                       ELSE [num |-> 0, den |-> 1])
                 ELSE (IF up_days > 0 /\ up_volume > 0
                       THEN [num |-> 2, den |-> 1] ELSE [num |-> 1, den |-> 1])
    IN  [error |-> FALSE, vol_ratio |-> ratio, interpretation |-> interpret_ratio(ratio)]


\* compute_indicators_from_df(df): the fields that get_five_pillar_analysis
\* and compute_state_for_date read.  Closes are never NaN in the histories of
\* the model, so close.dropna() is the Close column.
ErrorIndicators ==
    [error |-> TRUE, last_close |-> None, spot_price |-> None, sma20 |-> None,
     sma50 |-> None, sma200 |-> None, rsi14 |-> None,
     rsi_momentum |-> [error |-> TRUE, current |-> None, direction |-> "flat"],
     trend |-> "unknown", macd_histogram |-> None,
     macd_histogram_slope |-> "unknown", adx |-> None, sma50_slope |-> None,
     rsi_divergence |-> "None", up_down_volume |-> NoUpDown,
     obv_slope |-> None, obv_vs_sma |-> "unknown"]

compute_indicators_from_df(df) ==
    IF Len(df) = 0 THEN ErrorIndicators
    ELSE
    LET close == CloseOf(df)
        n     == Len(close)
    IN
    IF n < 50 THEN ErrorIndicators
    ELSE
    LET last_close == Num(close[n] * PCT)
        sma20  == IF n >= 20 THEN sma(close, 20, n) ELSE None
        sma50  == IF n >= 50 THEN sma(close, 50, n) ELSE None
        sma200 == IF n >= 200 THEN sma(close, 200, n) ELSE None
        r      == RsiSeries(close)
        rd     == DropNa(r)
        md     == macd(close)
        signed == SignedVolume(df)
        \* the last 20 values of the OBV series
        obvs   == [k \in (n - 19)..n |-> obv(signed, k)]
        start  == obvs[n - 9]
    IN  [error |-> FALSE,
         last_close |-> last_close,
         spot_price |-> last_close,
         sma20 |-> sma20, sma50 |-> sma50, sma200 |-> sma200,
         rsi14 |-> IF Len(rd) > 0 THEN r[n] ELSE None,
         rsi_momentum |-> IF Len(rd) >= 5 THEN analyze_rsi_momentum(r, 5)
                          ELSE [error |-> TRUE, current |-> None, direction |-> "flat"],
         trend |-> classify_trend(last_close, sma20, sma50, sma200),
         macd_histogram |-> IF n >= 26 THEN Num(md.hist[Len(md.hist)]) ELSE None,
         macd_histogram_slope |-> IF n >= 26 THEN histogram_slope(md.hist)
                                  ELSE "unknown",
         adx |-> IF n >= 28 THEN adx(df, 14) ELSE None,
         sma50_slope |-> IF n >= 70 THEN Num(sma_slope(close, 50, 20)) ELSE Num(0),
         rsi_divergence |-> IF n >= 30 THEN detect_divergence(
                                [k \in 1..n |-> Num(close[k])], r, 30)
                            ELSE "None",
         up_down_volume |-> IF n >= 11 THEN up_down_volume_ratio(df, 10)
                            ELSE NoUpDown,
         obv_slope |-> IF n >= 20
                       THEN (IF start # 0
                             THEN Num(Div((obvs[n] - start) * 100 * PCT, Abs(start)))
                             ELSE Num(0))
                       ELSE Num(0),
         obv_vs_sma |-> IF n >= 20
                        THEN (IF obvs[n] * 20 > SumRange(obvs, n - 19, n)
                              THEN "above" ELSE "below")
                        ELSE "unknown"]

-----------------------------------------------------------------------------
(* market_regime.py *)

\* classify_regime with the trend rules tried before the range rule
classify_regime_trend_first(price, sma200, sma50, sma50_slope_in, adx_in) ==
    IF price = None \/ sma200 = None \/ sma50 = None THEN "unknown"
    ELSE
    LET adxv  == IF adx_in # None THEN adx_in ELSE Num(15 * PCT)
        slope == IF sma50_slope_in # None THEN sma50_slope_in ELSE Num(0)
        price_vs_200 ==
            IF ~IsNum(price) \/ ~IsNum(sma200) THEN NaN
            ELSE IF Val(sma200) # 0
                 THEN Num(Div((Val(price) - Val(sma200)) * 100 * PCT, Val(sma200)))
                 ELSE Num(0)
        sma50_vs_200    == Gt(sma50, sma200)
        price_above_200 == Gt(price, sma200)
        price_below_200 == Lt(price, sma200)
        slope_rising    == Gt(slope, Num(20))
        slope_falling   == Lt(slope, Num(-20))
        slope_flat      == IsNum(slope) /\ Abs(Val(slope)) <= 20
        strong_trend    == Gt(adxv, Num(18 * PCT))
        weak_trend      == Lt(adxv, Num(18 * PCT))
        near_200        == IsNum(price_vs_200) /\ Abs(Val(price_vs_200)) < 3 * PCT
    IN  IF price_above_200 /\ strong_trend THEN "uptrend"
        ELSE IF price_below_200 /\ strong_trend THEN "downtrend"
        ELSE "range"

\* classify_regime(price, sma200, sma50, sma50_slope, adx) -> regime
classify_regime(price, sma200, sma50, sma50_slope_in, adx_in) ==
    IF price = None \/ sma200 = None \/ sma50 = None THEN "unknown"
    ELSE
    LET adxv  == IF adx_in # None THEN adx_in ELSE Num(15 * PCT)
        slope == IF sma50_slope_in # None THEN sma50_slope_in ELSE Num(0)
        price_vs_200 ==
            IF ~IsNum(price) \/ ~IsNum(sma200) THEN NaN
            ELSE IF Val(sma200) # 0
                 THEN Num(Div((Val(price) - Val(sma200)) * 100 * PCT, Val(sma200)))
                 ELSE Num(0)
        sma50_vs_200    == Gt(sma50, sma200)
        price_above_200 == Gt(price, sma200)
        price_below_200 == Lt(price, sma200)
        slope_rising    == Gt(slope, Num(20))
        slope_falling   == Lt(slope, Num(-20))
        slope_flat      == IsNum(slope) /\ Abs(Val(slope)) <= 20
        strong_trend    == Gt(adxv, Num(18 * PCT))
        weak_trend      == Lt(adxv, Num(18 * PCT))
        near_200        == IsNum(price_vs_200) /\ Abs(Val(price_vs_200)) < 3 * PCT
    IN  IF weak_trend \/ (near_200 /\ slope_flat) THEN "range"
        ELSE IF price_above_200 /\ sma50_vs_200 /\ slope_rising /\ strong_trend
             THEN "uptrend"
        ELSE IF price_below_200 /\ ~sma50_vs_200 /\ slope_falling /\ strong_trend
             THEN "downtrend"
        ELSE IF price_above_200 /\ strong_trend THEN "uptrend"
        ELSE IF price_below_200 /\ strong_trend THEN "downtrend"
        ELSE "range"

\* analyze_momentum with the divergence looked at only when nothing else speaks
analyze_momentum_divergence_last(macd_hist_slope, rsi_direction, rsi_divergence, price_trend) ==
    LET macd_rising  == macd_hist_slope = "rising"
        macd_falling == macd_hist_slope = "falling"
        rsi_rising   == rsi_direction = "rising"
        rsi_falling  == rsi_direction = "falling"
    IN  IF macd_rising /\ rsi_rising
        THEN [phase |-> "accelerating", divergence_type |-> "None"]
        ELSE IF macd_falling /\ rsi_falling
        THEN [phase |-> "cooling", divergence_type |-> "None"]
        ELSE IF rsi_divergence \in {"bearish", "bullish"}
        THEN [phase |-> "diverging", divergence_type |-> rsi_divergence]
        ELSE [phase |-> "steady", divergence_type |-> "None"]

\* analyze_momentum(...) -> [phase, divergence_type]
analyze_momentum(macd_hist_slope, rsi_direction, rsi_divergence, price_trend) ==
    IF rsi_divergence = "bearish"
    THEN [phase |-> "diverging", divergence_type |-> "bearish"]
    ELSE IF rsi_divergence = "bullish"
    THEN [phase |-> "diverging", divergence_type |-> "bullish"]
    ELSE
    LET macd_rising  == macd_hist_slope = "rising"
        macd_falling == macd_hist_slope = "falling"
        rsi_rising   == rsi_direction = "rising"
        rsi_falling  == rsi_direction = "falling"
        phase ==
            IF macd_rising /\ rsi_rising THEN "accelerating"
            ELSE IF macd_falling /\ rsi_falling THEN "cooling"
            ELSE IF price_trend = "uptrend" /\ (macd_falling \/ rsi_falling)
                 THEN "cooling"
            ELSE IF price_trend = "downtrend" /\ (macd_rising \/ rsi_rising)
                 THEN "cooling"
            ELSE IF macd_rising \/ rsi_rising THEN "accelerating"
            ELSE IF macd_falling \/ rsi_falling THEN "cooling"
            ELSE "steady"
    IN  [phase |-> phase, divergence_type |-> "None"]

\* analyze_participation(up_down_volume, obv_slope, obv_vs_sma, price_direction)
analyze_participation(up_down_volume, obv_slope, obv_vs_sma, price_direction) ==
    IF up_down_volume.error THEN "unknown"
    ELSE
    LET vol_ratio   == up_down_volume.vol_ratio
        vol_interp  == up_down_volume.interpretation
        truthy      == obv_slope # None /\ obv_slope # Num(0)
        obv_rising  == IF truthy THEN Gt(obv_slope, Num(50)) ELSE FALSE
        obv_falling == IF truthy THEN Lt(obv_slope, Num(-50)) ELSE FALSE
        obv_bullish == obv_vs_sma = "above"
    IN  IF price_direction = "up"
        THEN (IF RatioGt(vol_ratio, 11, 10) /\ (obv_rising \/ obv_bullish)
              THEN "confirming"
              ELSE IF RatioLt(vol_ratio, 9, 10) \/ obv_falling THEN "thinning"
              ELSE IF RatioLt(vol_ratio, 9, 10) /\ obv_falling THEN "distribution"
              ELSE "neutral")
        ELSE IF price_direction = "down"
        THEN (IF RatioLt(vol_ratio, 9, 10) /\ obv_falling THEN "confirming"
              ELSE IF RatioGt(vol_ratio, 11, 10) \/ obv_rising THEN "thinning"
              ELSE "neutral")
        ELSE (IF vol_interp \in {"strong_selling", "selling"} THEN "distribution"
              ELSE IF vol_interp \in {"strong_buying", "buying"} THEN "accumulation"
              ELSE "neutral")

\* analyze_macro_tailwind_status(tailwind_data) -> status
analyze_macro_tailwind_status(tailwind_data) == GetOr(tailwind_data.status, "neutral")

\* analyze_positioning(cot_percentile) -> status
analyze_positioning(cot_percentile) ==
    IF cot_percentile = None THEN "unknown"
    ELSE IF Gt(cot_percentile, Num(80)) THEN "crowded_long"
    ELSE IF Lt(cot_percentile, Num(20)) THEN "washed_out"
    ELSE IF Gt(cot_percentile, Num(65)) THEN "elevated_long"
    ELSE IF Lt(cot_percentile, Num(35)) THEN "light_positioning"
    ELSE "neutral"

\* a Python value is falsy when it is None or 0
Falsy(v) == v = None \/ v = Num(0)
Or(a, b) == IF Falsy(a) THEN b ELSE a

NoCot == [present |-> FALSE, error |-> FALSE, managed_money_percentile |-> None,
          mm_percentile |-> None]

\* get_five_pillar_analysis(indicators, macro_tailwind, cot_data): the five
\* pillar classifications.  indicators.get(key) of an absent key is None,
\* indicators.get(key, default) is the default.
get_five_pillar_analysis(indicators, macro_tailwind, cot_data) ==
    LET Get(v, default) == IF v = Absent THEN default ELSE v
        price       == Or(Get(indicators.spot_price, None), Get(indicators.last_close, None))
        rsi_dir     == GetOr(indicators.rsi_momentum.direction, "flat")
        trend       == GetOr(indicators.trend, "chop")
        price_direction == IF trend = "uptrend" THEN "up"
                           ELSE IF trend = "downtrend" THEN "down" ELSE "flat"
        cot_percentile ==
            IF cot_data.present /\ ~cot_data.error
            THEN Or(cot_data.managed_money_percentile, cot_data.mm_percentile)
            ELSE None
    IN  [regime |-> classify_regime(price, Get(indicators.sma200, None),
                                    Get(indicators.sma50, None),
                                    Get(indicators.sma50_slope, Num(0)),
                                    Get(indicators.adx, None)),
         momentum |-> analyze_momentum(GetOr(indicators.macd_histogram_slope, "flat"),
                                       rsi_dir,
                                       GetOr(indicators.rsi_divergence, "None"), trend),
         participation |-> analyze_participation(indicators.up_down_volume,
                                Get(indicators.obv_slope, Num(0)),
                                GetOr(indicators.obv_vs_sma, "unknown"),
                                price_direction),
         tailwind |-> analyze_macro_tailwind_status(macro_tailwind),
         positioning |-> analyze_positioning(cot_percentile)]


-----------------------------------------------------------------------------
(* backtest_runner.py *)

\* a Python str-or-None: the token PyNone is None, every other string is itself
PyNone == "<None>"

\* str.lower() on the strings the model passes around
Lower(str) ==
    CASE str = "UPTREND" -> "uptrend"
      [] str = "Uptrend" -> "uptrend"
      [] str = "Cooling" -> "cooling"
      [] str = "NEUTRAL" -> "neutral"
      [] str = "Hostile" -> "hostile"
      [] str = "CROWDED_LONG" -> "crowded_long"
      [] OTHER -> str

\* dict.get(key, default) on the code tables of encode_state_hash
regime_code(key) ==
    CASE key = "uptrend" -> "u" [] key = "downtrend" -> "d"
      [] key = "range" -> "r" [] key = "unknown" -> "x" [] OTHER -> "x"

momentum_code(key) ==
    CASE key = "accelerating" -> "a" [] key = "cooling" -> "c"
      [] key = "diverging" -> "v" [] key = "steady" -> "s"
      [] key = "unknown" -> "x" [] OTHER -> "x"

participation_code(key) ==
    CASE key = "confirming" -> "c" [] key = "thinning" -> "t"
      [] key = "distribution" -> "d" [] key = "accumulation" -> "a"
      [] key = "neutral" -> "n" [] key = "unknown" -> "x" [] OTHER -> "x"

tailwind_code(key) ==
    CASE key = "supportive" -> "s" [] key = "hostile" -> "h"
      [] key = "mixed" -> "m" [] key = "neutral" -> "n"
      [] key = "unknown" -> "x" [] OTHER -> "x"

positioning_code_full(key) ==
    CASE key = "crowded_long" -> "cl" [] key = "washed_out" -> "wo"
      [] key = "elevated_long" -> "el" [] key = "light_positioning" -> "lp"
      [] key = "neutral" -> "n" [] key = "unknown" -> "u" [] OTHER -> "x"

\* truthiness of a str-or-None
StrTruthy(str) == str # PyNone /\ str # ""
LowerOrUnknown(str) == IF StrTruthy(str) THEN Lower(str) ELSE "unknown"

\* encode_state_hash that appends the suffix whenever tailwind and
\* positioning are given, include_all or not
encode_state_hash_suffix_given(regime, momentum, participation, tailwind, positioning, include_all) ==
    LET r == regime_code(LowerOrUnknown(regime))
        m == momentum_code(LowerOrUnknown(momentum))
        p == participation_code(LowerOrUnknown(participation))
        base_hash == "R" \o r \o "_M" \o m \o "_P" \o p
    IN  IF StrTruthy(tailwind) /\ StrTruthy(positioning)
        THEN LET t   == tailwind_code(LowerOrUnknown(tailwind))
                 pos == positioning_code_full(LowerOrUnknown(positioning))
             IN  base_hash \o "_T" \o t \o "_C" \o pos
        ELSE base_hash

\* backtest_runner.encode_state_hash
encode_state_hash(regime, momentum, participation, tailwind, positioning, include_all) ==
    LET r == regime_code(LowerOrUnknown(regime))
        m == momentum_code(LowerOrUnknown(momentum))
        p == participation_code(LowerOrUnknown(participation))
        base_hash == "R" \o r \o "_M" \o m \o "_P" \o p
    IN  IF include_all /\ StrTruthy(tailwind) /\ StrTruthy(positioning)
        THEN LET t   == tailwind_code(LowerOrUnknown(tailwind))
                 pos == positioning_code_full(LowerOrUnknown(positioning))
             IN  base_hash \o "_T" \o t \o "_C" \o pos
        ELSE base_hash

\* slice_to_date that keeps the whole frame
slice_to_date_whole(df, d) == df

\* slice_to_date(df, target_date): rows with index <= target_date
slice_to_date(df, d) ==
    LET Keep(bar) == bar.date <= d IN SelectSeq(df, Keep)

\* the neutral macro default compute_state_for_date passes to the analysis
BacktestTailwind == [status |-> "neutral"]

\* the dict compute_state_for_date returns
StateRecord(sliced_df, d, indicators, five_pillar) ==
    [date |-> d,
     close |-> sliced_df[Len(sliced_df)].close,
     regime |-> five_pillar.regime,
     momentum |-> five_pillar.momentum.phase,
     participation |-> five_pillar.participation,
     tailwind |-> five_pillar.tailwind,
     positioning |-> five_pillar.positioning,
     adx |-> indicators.adx,
     rsi14 |-> indicators.rsi14,
     sma50_slope |-> indicators.sma50_slope]

\* compute_state_for_date with the warm-up test written `<=`
compute_state_for_date_le(history, d) ==
    LET sliced_df == slice_to_date(history, d) IN
    IF Len(sliced_df) <= WARMUP_DAYS THEN None
    ELSE
    LET indicators == compute_indicators_from_df(sliced_df) IN
    IF indicators.error THEN None
    ELSE <<StateRecord(sliced_df, d, indicators,
               get_five_pillar_analysis(indicators, BacktestTailwind, NoCot))>>

\* compute_state_for_date(full_history, target_date): <<>> is None
compute_state_for_date(history, d) ==
    LET sliced_df == slice_to_date(history, d) IN
    IF Len(sliced_df) < WARMUP_DAYS THEN None
    ELSE
    LET indicators == compute_indicators_from_df(sliced_df) IN
    IF indicators.error THEN None
    ELSE <<StateRecord(sliced_df, d, indicators,
               get_five_pillar_analysis(indicators, BacktestTailwind, NoCot))>>

\* the percent change with the two prices exchanged, ((base - future) / base) * 100
PctChange_reversed(future, base) == Div((base - future) * 100 * PCT, base)

\* percent change of close, ((future - base) / base) * 100
PctChange(future, base) == Div((future - base) * 100 * PCT, base)

\* position (1-based) of the last row dated <= d; 0 when there is none
IndexOf(history, d) == Len(slice_to_date(history, d))

\* forward_return reading the bar one short of the horizon
forward_return_short(close, k, h) ==
    IF (k - 1) + h < Len(close) THEN Num(PctChange(close[k + h - 1], close[k]))
    ELSE None

\* the forward return for one horizon h; Python's 0-based target_idx is k - 1
forward_return(close, k, h) ==
    IF (k - 1) + h < Len(close) THEN Num(PctChange(close[k + h], close[k]))
    ELSE None

\* MAE ("min") / MFE ("max") over the window iloc[target_idx : target_idx + w + 1],
\* a slice that stops at the last row of the history
excursion(close, k, w, which) ==
    IF (k - 1) + w <= Len(close)
    THEN LET last == Min2(k + w, Len(close))
             ext  == IF which = "min" THEN MinRange(close, k, last)
                     ELSE MaxRange(close, k, last)
         IN  Num(PctChange(ext, close[k]))
    ELSE None

\* calculate_forward_returns(full_history, target_date)
calculate_forward_returns(history, d) ==
    LET k == IndexOf(history, d)
        n == Len(history)
    IN
    IF k = 0
    THEN [fwd_5d_return |-> None, fwd_10d_return |-> None, fwd_20d_return |-> None,
          fwd_5d_mae |-> None, fwd_5d_mfe |-> None,
          fwd_20d_mae |-> None, fwd_20d_mfe |-> None]
    ELSE
    LET close == CloseOf(history)
    IN  [fwd_5d_return  |-> forward_return(close, k, 5),
         fwd_10d_return |-> forward_return(close, k, 10),
         fwd_20d_return |-> forward_return(close, k, 20),
         fwd_5d_mae  |-> excursion(close, k, 5, "min"),
         fwd_5d_mfe  |-> excursion(close, k, 5, "max"),
         fwd_20d_mae |-> excursion(close, k, 20, "min"),
         fwd_20d_mfe |-> excursion(close, k, 20, "max")]


\* the history check without the forward window
InsufficientHistory_warmup_only(ok, history) ==
    ~ok \/ Len(history) < WARMUP_DAYS

\* run_backtest: the history check that precedes the walk
InsufficientHistory(ok, history) ==
    ~ok \/ Len(history) < WARMUP_DAYS + FORWARD_WINDOW

\* every step-th element of a sequence, all_dates[::step_days]
EveryNth(seq, step) ==
    [j \in 1..((Len(seq) + step - 1) \div step) |-> seq[(j - 1) * step + 1]]

\* run_backtest: the observation dates for (start_date, end_date, step_days)
ObservationDates(history, start_date, end_date, step_days) ==
    LET n        == Len(history)
        start_dt == IF start_date = None THEN history[WARMUP_DAYS + 1].date
                    ELSE Val(start_date)
        end_dt   == IF end_date = None THEN history[n - FORWARD_WINDOW].date
                    ELSE Val(end_date)
        InRange(bar) == bar.date >= start_dt /\ bar.date <= end_dt
        rows     == SelectSeq(history, InRange)
        all_dates == [j \in 1..Len(rows) |-> rows[j].date]
    IN  EveryNth(all_dates, step_days)

\* the (start_date, end_date, step_days) arguments the model runs with
RunConfigs(history) ==
    LET n == Len(history) IN
    { [start |-> None, end |-> None, step |-> 1],
      [start |-> Num(DateOf(WARMUP_DAYS - 1)), end |-> None, step |-> 1],
      [start |-> Num(DateOf(WARMUP_DAYS - 1)), end |-> Num(DateOf(n) + 1), step |-> 4],
      [start |-> Num(DateOf(n - 6)), end |-> Num(DateOf(n) + 1), step |-> 1] }

\* run_backtest up to the loop: load, check, date range
RunBacktestStart ==
    /\ pc = "init"
    /\ \E cfg \in RunConfigs(full_history), verbose \in BOOLEAN :
         IF InsufficientHistory(loadable, full_history)
         THEN /\ pc' = "insufficient"    \* ValueError("Insufficient history")
              /\ UNCHANGED observation_dates
         ELSE LET dates == ObservationDates(full_history, cfg.start, cfg.end, cfg.step)
              IN  IF verbose /\ Len(dates) = 0
                  THEN /\ pc' = "index_error"  \* observation_dates[0]: IndexError
                       /\ UNCHANGED observation_dates
                  ELSE /\ pc' = "walk"
                       /\ observation_dates' = dates
    /\ UNCHANGED <<full_history, loadable, i, records, skipped>>
    /\ UNCHANGED <<lookvars, encvars, aggvars, servevars, extvars>>

\* run_backtest: one iteration of the loop over observation_dates
MakeRecord(history, state, fwd) ==
    [date |-> state.date, close |-> state.close, regime |-> state.regime,
     momentum |-> state.momentum, participation |-> state.participation,
     tailwind |-> state.tailwind, positioning |-> state.positioning,
     adx |-> state.adx, rsi14 |-> state.rsi14, sma50_slope |-> state.sma50_slope,
     metal |-> "gold",
     state_hash |-> encode_state_hash(state.regime, state.momentum,
                                      state.participation, PyNone, PyNone, FALSE),
     fwd_5d_return |-> fwd.fwd_5d_return, fwd_10d_return |-> fwd.fwd_10d_return,
     fwd_20d_return |-> fwd.fwd_20d_return,
     fwd_5d_mae |-> fwd.fwd_5d_mae, fwd_5d_mfe |-> fwd.fwd_5d_mfe,
     fwd_20d_mae |-> fwd.fwd_20d_mae, fwd_20d_mfe |-> fwd.fwd_20d_mfe,
     valid |-> fwd.fwd_20d_return # None]

WalkDate ==
    /\ pc = "walk"
    /\ i < Len(observation_dates)
    /\ LET d     == observation_dates[i + 1]
           state == compute_state_for_date(full_history, d)
       IN  IF state = None
           THEN /\ skipped' = skipped + 1
                /\ UNCHANGED records
           ELSE /\ records' = Append(records,
                       MakeRecord(full_history, state[1],
                                  calculate_forward_returns(full_history, d)))
                /\ UNCHANGED skipped
    /\ i' = i + 1
    /\ UNCHANGED <<full_history, loadable, observation_dates, pc>>
    /\ UNCHANGED <<lookvars, encvars, aggvars, servevars, extvars>>

\* run_backtest: the loop is over, the records become the returned frame
RunBacktestFinish ==
    /\ pc = "walk"
    /\ i = Len(observation_dates)
    /\ pc' = "done"
    /\ UNCHANGED <<full_history, loadable, observation_dates, i, records, skipped>>
    /\ UNCHANGED <<lookvars, encvars, aggvars, servevars, extvars>>

Init ==
    /\ \/ loadable = TRUE /\ full_history \in Histories
       \/ loadable = FALSE /\ full_history = <<>>
    /\ observation_dates = <<>>
    /\ i = 0
    /\ records = <<>>
    /\ skipped = 0
    /\ pc = "init"
    /\ LookIdle /\ EncIdle /\ AggIdle /\ ServeIdle /\ ExtIdle

Next ==
    \/ RunBacktestStart
    \/ WalkDate
    \/ RunBacktestFinish

Spec == Init /\ [][Next]_vars

-----------------------------------------------------------------------------
(* No look-ahead (specification SpecLook): the state as of target_date is   *)
(* computed on full_history, then every bar after target_date is replaced,  *)
(* and the state is computed again on the resulting other_history.          *)

FutureCloses == {1, 999}

\* the dates the two histories are evaluated at: the last cold bar, the
\* first warm bar, and two bars that have the freely chosen tail after them
LookDates ==
    {DateOf(k) : k \in {WARMUP_DAYS - 1, WARMUP_DAYS,
                        MaxBars - TailLen, MaxBars - 1}}

\* bars dated after d: none, one or two, with arbitrary closes
FutureBars(d) ==
    LET Bar(date, c) == [date |-> date, close |-> c, high |-> c + 1,
                         low |-> c - 1, volume |-> 10]
    IN  {<<>>}
        \cup {<<Bar(d + 1, c)>> : c \in FutureCloses}
        \cup {<<Bar(d + 1, c1), Bar(d + 4, c2)>> : c1, c2 \in FutureCloses}

LookInit ==
    /\ full_history \in {MkHistory(s, MaxBars, t) :
                            s \in Shapes, t \in [1..TailLen -> TailDeltas]}
    /\ target_date \in LookDates
    /\ other_history = <<>>
    /\ state_a = "pending"
    /\ state_b = "pending"
    /\ pc = "look"
    /\ loadable = TRUE
    /\ observation_dates = <<>>
    /\ i = 0
    /\ records = <<>>
    /\ skipped = 0
    /\ EncIdle /\ AggIdle /\ ServeIdle /\ ExtIdle

ComputeStateA ==
    /\ pc = "look"
    /\ state_a = "pending"
    /\ state_a' = compute_state_for_date(full_history, target_date)
    /\ UNCHANGED <<other_history, target_date, state_b>>
    /\ UNCHANGED <<walkvars, encvars, aggvars, servevars, extvars>>

ReplaceFuture ==
    /\ pc = "look"
    /\ state_a # "pending"
    /\ other_history = <<>>
    /\ \E fut \in FutureBars(target_date) :
         LET Before(bar) == bar.date <= target_date
         IN  other_history' = SelectSeq(full_history, Before) \o fut
    /\ UNCHANGED <<target_date, state_a, state_b>>
    /\ UNCHANGED <<walkvars, encvars, aggvars, servevars, extvars>>

ComputeStateB ==
    /\ pc = "look"
    /\ other_history # <<>>
    /\ state_b = "pending"
    /\ state_b' = compute_state_for_date(other_history, target_date)
    /\ UNCHANGED <<other_history, target_date, state_a>>
    /\ UNCHANGED <<walkvars, encvars, aggvars, servevars, extvars>>

LookNext ==
    \/ ComputeStateA
    \/ ReplaceFuture
    \/ ComputeStateB

SpecLook == LookInit /\ [][LookNext]_vars

-----------------------------------------------------------------------------
(* forward_expectations.py: the live copy of the state encoder *)

fe_regime_code(key) ==
    CASE key = "uptrend" -> "u" [] key = "downtrend" -> "d"
      [] key = "range" -> "r" [] key = "unknown" -> "x" [] OTHER -> "x"

fe_momentum_code(key) ==
    CASE key = "accelerating" -> "a" [] key = "cooling" -> "c"
      [] key = "diverging" -> "v" [] key = "steady" -> "s"
      [] key = "unknown" -> "x" [] OTHER -> "x"

fe_participation_code(key) ==
    CASE key = "confirming" -> "c" [] key = "thinning" -> "t"
      [] key = "distribution" -> "d" [] key = "accumulation" -> "a"
      [] key = "neutral" -> "n" [] key = "unknown" -> "x" [] OTHER -> "x"

fe_tailwind_code(key) ==
    CASE key = "supportive" -> "s" [] key = "hostile" -> "h"
      [] key = "mixed" -> "m" [] key = "neutral" -> "n"
      [] key = "unknown" -> "x" [] OTHER -> "x"

fe_positioning_code_full(key) ==
    CASE key = "crowded_long" -> "cl" [] key = "washed_out" -> "wo"
      [] key = "elevated_long" -> "el" [] key = "light_positioning" -> "lp"
      [] key = "neutral" -> "n" [] key = "unknown" -> "u" [] OTHER -> "x"

\* the live encoder without the lower() calls
fe_encode_state_hash_no_lower(regime, momentum, participation, tailwind, positioning, include_all) ==
    LET AsGiven(str) == IF StrTruthy(str) THEN str ELSE "unknown"
        r == fe_regime_code(AsGiven(regime))
        m == fe_momentum_code(AsGiven(momentum))
        p == fe_participation_code(AsGiven(participation))
        base_hash == "R" \o r \o "_M" \o m \o "_P" \o p
    IN  IF include_all /\ StrTruthy(tailwind) /\ StrTruthy(positioning)
        THEN LET t   == fe_tailwind_code(AsGiven(tailwind))
                 pos == fe_positioning_code_full(AsGiven(positioning))
             IN  base_hash \o "_T" \o t \o "_C" \o pos
        ELSE base_hash

\* forward_expectations.encode_state_hash
fe_encode_state_hash(regime, momentum, participation, tailwind, positioning, include_all) ==
    LET r == fe_regime_code(LowerOrUnknown(regime))
        m == fe_momentum_code(LowerOrUnknown(momentum))
        p == fe_participation_code(LowerOrUnknown(participation))
        base_hash == "R" \o r \o "_M" \o m \o "_P" \o p
    IN  IF include_all /\ StrTruthy(tailwind) /\ StrTruthy(positioning)
        THEN LET t   == fe_tailwind_code(LowerOrUnknown(tailwind))
                 pos == fe_positioning_code_full(LowerOrUnknown(positioning))
             IN  base_hash \o "_T" \o t \o "_C" \o pos
        ELSE base_hash

\* str.title() on the pillar values
Title(str) ==
    CASE str = "uptrend" -> "Uptrend" [] str = "downtrend" -> "Downtrend"
      [] str = "range" -> "Range" [] str = "unknown" -> "Unknown"
      [] str = "accelerating" -> "Accelerating" [] str = "cooling" -> "Cooling"
      [] str = "diverging" -> "Diverging" [] str = "steady" -> "Steady"
      [] str = "confirming" -> "Confirming" [] str = "thinning" -> "Thinning"
      [] str = "distribution" -> "Distribution"
      [] str = "accumulation" -> "Accumulation" [] str = "neutral" -> "Neutral"
      [] str = "bearish" -> "Bearish" [] str = "bullish" -> "Bullish"
      [] OTHER -> str

\* load_aggregated_stats with a missing file read as an empty frame
load_aggregated_stats_empty(file) ==
    IF file.exists THEN <<file.rows>> ELSE <<<<>>>>

\* load_aggregated_stats(metal): <<>> is None, <<rows>> the frame read
load_aggregated_stats(file) ==
    IF file.exists THEN <<file.rows>> ELSE <<>>

format_state_readable(regime, momentum, participation) ==
    Title(regime) \o " / " \o Title(momentum) \o " / " \o Title(participation)

classify_expected_return(mean_return) ==
    IF Gt(mean_return, Num(100)) THEN "strongly_positive"
    ELSE IF Gt(mean_return, Num(25)) THEN "positive"
    ELSE IF Gt(mean_return, Num(-25)) THEN "flat"
    ELSE IF Gt(mean_return, Num(-100)) THEN "negative"
    ELSE "strongly_negative"

\* round(x, 1) of a number held in hundredths (ties to even); NaN stays NaN
Round1(v) ==
    IF ~IsNum(v) THEN v
    ELSE LET x    == Val(v)
             a    == Abs(x)
             down == (a \div 10) * 10
             rest == a % 10
             r    == IF rest > 5 \/ (rest = 5 /\ (a \div 10) % 2 = 1)
                     THEN down + 10 ELSE down
         IN  Num(IF x < 0 THEN -r ELSE r)

\* the sum and the difference of two optional numbers
Plus(a, b) == IF IsNum(a) /\ IsNum(b) THEN Num(Val(a) + Val(b)) ELSE NaN
Minus(a, b) == IF IsNum(a) /\ IsNum(b) THEN Num(Val(a) - Val(b)) ELSE NaN

Warning(type, severity) == [type |-> type, severity |-> severity]
WarnIf(cond, type, severity) == IF cond THEN <<Warning(type, severity)>> ELSE <<>>

\* generate_risk_warnings without the final sort: the warnings in the order
\* they were appended
generate_risk_warnings_unsorted(stats, current_state) ==
    LET regime == GetOr(current_state.regime, "")
        momentum_phase == GetOr(current_state.momentum.phase, "")
        participation == GetOr(current_state.participation, "")
        pos_status == GetOr(current_state.positioning, "")
        warnings ==
            WarnIf(stats.n_samples < 30, "low_samples", "medium")
         \o WarnIf(Gt(stats.std_5d, Num(300)), "high_volatility", "high")
         \o WarnIf(45 * PCT < stats.hit_rate_5d /\ stats.hit_rate_5d < 55 * PCT,
                   "low_edge", "medium")
         \o WarnIf(Lt(stats.avg_mae_5d, Num(-200)), "drawdown_risk", "high")
         \o WarnIf(Lt(stats.risk_reward_5d, Num(80)), "poor_risk_reward", "medium")
         \o WarnIf(current_state.momentum.divergence_type # "None",
                   "divergence_active", "high")
         \o (IF regime = "uptrend" /\ momentum_phase = "cooling"
             THEN IF participation \in {"thinning", "distribution"}
                  THEN <<Warning("pullback_likely", "high")>>
                  ELSE <<Warning("momentum_weakening", "medium")>>
             ELSE <<>>)
         \o (IF pos_status \in {"crowded_long", "elevated_long"}
             THEN <<Warning("crowded_positioning", "medium")>>
             ELSE IF pos_status = "washed_out"
             THEN <<Warning("washed_out", "low")>>
             ELSE <<>>)
         \o WarnIf(regime = "uptrend" /\ participation = "distribution",
                   "distribution_warning", "high")
    IN  warnings

\* generate_risk_warnings with the cooling-momentum warning appended in an
\* uptrend whatever the participation, next to the compound one
generate_risk_warnings_both(stats, current_state) ==
    LET regime == GetOr(current_state.regime, "")
        momentum_phase == GetOr(current_state.momentum.phase, "")
        participation == GetOr(current_state.participation, "")
        pos_status == GetOr(current_state.positioning, "")
        warnings ==
            WarnIf(stats.n_samples < 30, "low_samples", "medium")
         \o WarnIf(Gt(stats.std_5d, Num(300)), "high_volatility", "high")
         \o WarnIf(45 * PCT < stats.hit_rate_5d /\ stats.hit_rate_5d < 55 * PCT,
                   "low_edge", "medium")
         \o WarnIf(Lt(stats.avg_mae_5d, Num(-200)), "drawdown_risk", "high")
         \o WarnIf(Lt(stats.risk_reward_5d, Num(80)), "poor_risk_reward", "medium")
         \o WarnIf(current_state.momentum.divergence_type # "None",
                   "divergence_active", "high")
         \o (IF regime = "uptrend" /\ momentum_phase = "cooling"
             THEN IF participation \in {"thinning", "distribution"}
                  THEN <<Warning("pullback_likely", "high"),
                         Warning("momentum_weakening", "medium")>>
                  ELSE <<Warning("momentum_weakening", "medium")>>
             ELSE <<>>)
         \o (IF pos_status \in {"crowded_long", "elevated_long"}
             THEN <<Warning("crowded_positioning", "medium")>>
             ELSE IF pos_status = "washed_out"
             THEN <<Warning("washed_out", "low")>>
             ELSE <<>>)
         \o WarnIf(regime = "uptrend" /\ participation = "distribution",
                   "distribution_warning", "high")
        High(w) == w.severity = "high"
        Medium(w) == w.severity = "medium"
        Low(w) == w.severity = "low"
    IN  SelectSeq(warnings, High) \o SelectSeq(warnings, Medium)
        \o SelectSeq(warnings, Low)

\* generate_risk_warnings(stats, current_state): type and severity of each
\* warning, sorted by severity (list.sort is stable)
generate_risk_warnings(stats, current_state) ==
    LET regime == GetOr(current_state.regime, "")
        momentum_phase == GetOr(current_state.momentum.phase, "")
        participation == GetOr(current_state.participation, "")
        pos_status == GetOr(current_state.positioning, "")
        warnings ==
            WarnIf(stats.n_samples < 30, "low_samples", "medium")
         \o WarnIf(Gt(stats.std_5d, Num(300)), "high_volatility", "high")
         \o WarnIf(45 * PCT < stats.hit_rate_5d /\ stats.hit_rate_5d < 55 * PCT,
                   "low_edge", "medium")
         \o WarnIf(Lt(stats.avg_mae_5d, Num(-200)), "drawdown_risk", "high")
         \o WarnIf(Lt(stats.risk_reward_5d, Num(80)), "poor_risk_reward", "medium")
         \o WarnIf(current_state.momentum.divergence_type # "None",
                   "divergence_active", "high")
         \o (IF regime = "uptrend" /\ momentum_phase = "cooling"
             THEN IF participation \in {"thinning", "distribution"}
                  THEN <<Warning("pullback_likely", "high")>>
                  ELSE <<Warning("momentum_weakening", "medium")>>
             ELSE <<>>)
         \o (IF pos_status \in {"crowded_long", "elevated_long"}
             THEN <<Warning("crowded_positioning", "medium")>>
             ELSE IF pos_status = "washed_out"
             THEN <<Warning("washed_out", "low")>>
             ELSE <<>>)
         \o WarnIf(regime = "uptrend" /\ participation = "distribution",
                   "distribution_warning", "high")
        High(w) == w.severity = "high"
        Medium(w) == w.severity = "medium"
        Low(w) == w.severity = "low"
    IN  SelectSeq(warnings, High) \o SelectSeq(warnings, Medium)
        \o SelectSeq(warnings, Low)

\* calculate_invalidation_level(current_state, stats)
calculate_invalidation_level(current_state, stats) ==
    LET regime == GetOr(current_state.regime, "range")
        based_on_mae == stats.avg_mae_5d
    IN  IF regime = "uptrend"
        THEN [trigger |-> "Close below SMA200", structural_level |-> "SMA200",
              based_on_mae |-> based_on_mae]
        ELSE IF regime = "downtrend"
        THEN [trigger |-> "Close above SMA200", structural_level |-> "SMA200",
              based_on_mae |-> based_on_mae]
        ELSE [trigger |-> "ADX crossing above 25 with directional break",
              structural_level |-> "Range boundaries",
              based_on_mae |-> based_on_mae]

-----------------------------------------------------------------------------
(* The state encoder on pairs of Market States (specification SpecEnc):     *)
(* market_a and market_b carry the same regime, momentum and participation  *)
(* and any tailwind and positioning; each encoder computes the 3-pillar and *)
(* the 5-pillar key of both.                                                *)

RegimeValues == {"uptrend", "UPTREND", "range", "sideways", PyNone}
MomentumValues == {"accelerating", "Cooling", ""}
ParticipationValues == {"confirming", "thinning", "bogus"}
TailwindValues == {"supportive", "hostile", "Hostile", "bogus", PyNone}
PositioningValues == {"neutral", "crowded_long", "CROWDED_LONG", ""}

MarketState(r, m, p, t, c) ==
    [regime |-> r, momentum |-> m, participation |-> p,
     tailwind |-> t, positioning |-> c]

EncInit ==
    /\ \E r \in RegimeValues, m \in MomentumValues, p \in ParticipationValues,
          ta \in TailwindValues, ca \in PositioningValues,
          tb \in TailwindValues, cb \in PositioningValues :
         /\ market_a = MarketState(r, m, p, ta, ca)
         /\ market_b = MarketState(r, m, p, tb, cb)
    /\ keys = [runner |-> <<>>, live |-> <<>>]
    /\ pc = "enc"
    /\ WalkIdle /\ LookIdle /\ AggIdle /\ ServeIdle /\ ExtIdle

\* the keys of one Market State under the runner's encoder: the 3-pillar
\* call with and without the optional arguments, and the 5-pillar call
RunnerKeys(st) ==
    [key3 |-> encode_state_hash(st.regime, st.momentum, st.participation,
                                PyNone, PyNone, FALSE),
     key3_given |-> encode_state_hash(st.regime, st.momentum, st.participation,
                                      st.tailwind, st.positioning, FALSE),
     key5 |-> encode_state_hash(st.regime, st.momentum, st.participation,
                                st.tailwind, st.positioning, TRUE)]

LiveKeys(st) ==
    [key3 |-> fe_encode_state_hash(st.regime, st.momentum, st.participation,
                                   PyNone, PyNone, FALSE),
     key3_given |-> fe_encode_state_hash(st.regime, st.momentum, st.participation,
                                         st.tailwind, st.positioning, FALSE),
     key5 |-> fe_encode_state_hash(st.regime, st.momentum, st.participation,
                                   st.tailwind, st.positioning, TRUE)]

RunnerEncode ==
    /\ pc = "enc"
    /\ keys.runner = <<>>
    /\ keys' = [keys EXCEPT !.runner = <<RunnerKeys(market_a), RunnerKeys(market_b)>>]
    /\ UNCHANGED <<market_a, market_b>>
    /\ UNCHANGED <<walkvars, lookvars, aggvars, servevars, extvars>>

LiveEncode ==
    /\ pc = "enc"
    /\ keys.live = <<>>
    /\ keys' = [keys EXCEPT !.live = <<LiveKeys(market_a), LiveKeys(market_b)>>]
    /\ UNCHANGED <<market_a, market_b>>
    /\ UNCHANGED <<walkvars, lookvars, aggvars, servevars, extvars>>

EncNext ==
    \/ RunnerEncode
    \/ LiveEncode

SpecEnc == EncInit /\ [][EncNext]_vars

-----------------------------------------------------------------------------
(* backtest_aggregator.py *)

DEFAULT_MIN_SAMPLES == 10

\* pandas reductions of a column (a sequence of optional numbers); NaN and
\* None are skipped, a column without numbers reduces to NaN
Values(series) ==
    LET xs == SelectSeq(series, IsNum) IN [k \in 1..Len(xs) |-> Val(xs[k])]

SeriesMean(series) ==
    LET xs == Values(series)
    IN  IF Len(xs) = 0 THEN NaN ELSE Num(Div(SumRange(xs, 1, Len(xs)), Len(xs)))

SeriesMin(series) ==
    LET xs == Values(series)
    IN  IF Len(xs) = 0 THEN NaN ELSE Num(MinRange(xs, 1, Len(xs)))

SeriesMax(series) ==
    LET xs == Values(series)
    IN  IF Len(xs) = 0 THEN NaN ELSE Num(MaxRange(xs, 1, Len(xs)))

SeriesMedian(series) ==
    LET xs  == SortSeq(Values(series), LAMBDA a, b : a < b)
        n   == Len(xs)
        mid == (n + 1) \div 2
    IN  IF n = 0 THEN NaN
        ELSE IF n % 2 = 1 THEN Num(xs[mid])
        ELSE Num(Div(xs[mid] + xs[mid + 1], 2))

\* integer square root: the largest s in lo..hi with s * s <= v
RECURSIVE ISqrt(_, _, _)
ISqrt(v, lo, hi) ==
    IF lo >= hi THEN lo
    ELSE LET mid == (lo + hi + 1) \div 2
         IN  IF mid * mid <= v THEN ISqrt(v, mid, hi) ELSE ISqrt(v, lo, mid - 1)

\* Series.std(): the sample standard deviation (ddof = 1), NaN below two values
SeriesStd(series) ==
    LET xs == Values(series)
        n  == Len(xs)
        sq == [k \in 1..n |-> xs[k] * xs[k]]
        sum   == SumRange(xs, 1, n)
        sumsq == SumRange(sq, 1, n)
        var   == (n * sumsq - sum * sum) \div (n * (n - 1))
    IN  IF n < 2 THEN NaN ELSE Num(ISqrt(var, 0, Min2(var, 40000)))

\* (column > 0).sum() * 100: the count of wins, not their share
HitRate_sum(series) ==
    LET wins == {k \in 1..Len(series) : Gt(series[k], Num(0))}
    IN  Cardinality(wins) * 100 * PCT

\* (column > 0).mean() * 100 over a group: NaN > 0 is False and still counts
\* in the denominator
HitRate(series) ==
    LET wins == {k \in 1..Len(series) : Gt(series[k], Num(0))}
    IN  (Cardinality(wins) * 100 * PCT) \div Len(series)

\* a column of a frame
Column(df, name) == [k \in 1..Len(df) |-> df[k][name]]

\* the frame without the valid filter
ValidRows_all(df) == df

\* df[df["valid"] == True]
ValidRows(df) == LET IsValid(rec) == rec.valid = TRUE IN SelectSeq(df, IsValid)

\* the row aggregate_by_state builds for one group
GroupRow(state_hash, group) ==
    [state_hash |-> state_hash,
     n_samples |-> Len(group),
     regime |-> group[1].regime,
     momentum |-> group[1].momentum,
     participation |-> group[1].participation,
     mean_5d |-> SeriesMean(Column(group, "fwd_5d_return")),
     median_5d |-> SeriesMedian(Column(group, "fwd_5d_return")),
     std_5d |-> SeriesStd(Column(group, "fwd_5d_return")),
     min_5d |-> SeriesMin(Column(group, "fwd_5d_return")),
     max_5d |-> SeriesMax(Column(group, "fwd_5d_return")),
     hit_rate_5d |-> HitRate(Column(group, "fwd_5d_return")),
     mean_10d |-> SeriesMean(Column(group, "fwd_10d_return")),
     median_10d |-> SeriesMedian(Column(group, "fwd_10d_return")),
     std_10d |-> SeriesStd(Column(group, "fwd_10d_return")),
     hit_rate_10d |-> HitRate(Column(group, "fwd_10d_return")),
     mean_20d |-> SeriesMean(Column(group, "fwd_20d_return")),
     median_20d |-> SeriesMedian(Column(group, "fwd_20d_return")),
     std_20d |-> SeriesStd(Column(group, "fwd_20d_return")),
     hit_rate_20d |-> HitRate(Column(group, "fwd_20d_return")),
     avg_mae_5d |-> SeriesMean(Column(group, "fwd_5d_mae")),
     median_mae_5d |-> SeriesMedian(Column(group, "fwd_5d_mae")),
     worst_mae_5d |-> SeriesMin(Column(group, "fwd_5d_mae")),
     avg_mfe_5d |-> SeriesMean(Column(group, "fwd_5d_mfe")),
     median_mfe_5d |-> SeriesMedian(Column(group, "fwd_5d_mfe")),
     best_mfe_5d |-> SeriesMax(Column(group, "fwd_5d_mfe")),
     avg_mae_20d |-> SeriesMean(Column(group, "fwd_20d_mae")),
     avg_mfe_20d |-> SeriesMean(Column(group, "fwd_20d_mfe"))]

\* the confidence score with the hit-rate distance weighted 0.5
ConfidenceScore_half(row) ==
    LET n == row.n_samples
        sample_score == Min2(40 * PCT, n * 40)
        consistency_score ==
            IF Gt(row.std_5d, Num(0)) /\ IsNum(row.mean_5d) /\ Abs(Val(row.mean_5d)) > 1
            THEN LET cv5 == Div(5 * PCT * Val(row.std_5d), Abs(Val(row.mean_5d)))
                 IN  Max2(0, 30 * PCT - Min2(cv5, 30 * PCT))
            ELSE 15 * PCT
        hr_distance == Abs(row.hit_rate_5d - 50 * PCT)
        hr_score == Min2(30 * PCT, Div(hr_distance * 5, 10))
        total == sample_score + consistency_score + hr_score
    IN  Min2(100 * PCT, Max2(0, total))

\* one row's confidence score, in hundredths of a point
ConfidenceScore(row) ==
    LET n == row.n_samples
        sample_score == Min2(40 * PCT, n * 40)
        consistency_score ==
            IF Gt(row.std_5d, Num(0)) /\ IsNum(row.mean_5d) /\ Abs(Val(row.mean_5d)) > 1
            THEN LET cv5 == Div(5 * PCT * Val(row.std_5d), Abs(Val(row.mean_5d)))
                 IN  Max2(0, 30 * PCT - Min2(cv5, 30 * PCT))
            ELSE 15 * PCT
        hr_distance == Abs(row.hit_rate_5d - 50 * PCT)
        hr_score == Min2(30 * PCT, Div(hr_distance * 6, 10))
        total == sample_score + consistency_score + hr_score
    IN  Min2(100 * PCT, Max2(0, total))

\* calculate_confidence_scores(agg_df): adds the confidence_score column
calculate_confidence_scores(table) ==
    [k \in 1..Len(table) |->
        [f \in DOMAIN table[k] \cup {"confidence_score"} |->
            IF f = "confidence_score" THEN ConfidenceScore(table[k])
            ELSE table[k][f]]]

\* calculate_edge_quality: the risk/reward ratio, abs(avg_mfe / avg_mae)
RiskReward(row) ==
    IF row.avg_mae_5d = Num(0) THEN Num(0)
    ELSE IF IsNum(row.avg_mae_5d) /\ IsNum(row.avg_mfe_5d)
    THEN Num(Abs(Div(Val(row.avg_mfe_5d) * PCT, Val(row.avg_mae_5d))))
    ELSE NaN

\* calculate_edge_quality: hit_rate/100 * avg_mfe + (100 - hit_rate)/100 * avg_mae
Expectancy(row) ==
    IF IsNum(row.avg_mae_5d) /\ IsNum(row.avg_mfe_5d)
    THEN Num(Div(row.hit_rate_5d * Val(row.avg_mfe_5d)
                 + (100 * PCT - row.hit_rate_5d) * Val(row.avg_mae_5d), 100 * PCT))
    ELSE NaN

\* classify_edge with the risk/reward rules tried before the hit-rate rules
classify_edge_rr_first(row) ==
    LET hr   == row.hit_rate_5d
        mean == row.mean_5d
        rr_gt_1_5 == /\ IsNum(row.avg_mae_5d) /\ IsNum(row.avg_mfe_5d)
                     /\ Val(row.avg_mae_5d) # 0
                     /\ 2 * Abs(Val(row.avg_mfe_5d)) > 3 * Abs(Val(row.avg_mae_5d))
    IN  IF rr_gt_1_5 /\ Gt(mean, Num(0)) THEN "asymmetric_bullish"
        ELSE IF rr_gt_1_5 /\ Lt(mean, Num(0)) THEN "asymmetric_bearish"
        ELSE IF hr >= 60 * PCT /\ Gt(mean, Num(50)) THEN "strong_bullish"
        ELSE IF hr >= 55 * PCT /\ Gt(mean, Num(20)) THEN "bullish"
        ELSE IF hr <= 40 * PCT /\ Lt(mean, Num(-50)) THEN "strong_bearish"
        ELSE IF hr <= 45 * PCT /\ Lt(mean, Num(-20)) THEN "bearish"
        ELSE "neutral"

\* calculate_edge_quality.classify_edge; rr > 1.5 is decided on the exact ratio
classify_edge(row) ==
    LET hr   == row.hit_rate_5d
        mean == row.mean_5d
        rr_gt_1_5 == /\ IsNum(row.avg_mae_5d) /\ IsNum(row.avg_mfe_5d)
                     /\ Val(row.avg_mae_5d) # 0
                     /\ 2 * Abs(Val(row.avg_mfe_5d)) > 3 * Abs(Val(row.avg_mae_5d))
    IN  IF hr >= 60 * PCT /\ Gt(mean, Num(50)) THEN "strong_bullish"
        ELSE IF hr >= 55 * PCT /\ Gt(mean, Num(20)) THEN "bullish"
        ELSE IF hr <= 40 * PCT /\ Lt(mean, Num(-50)) THEN "strong_bearish"
        ELSE IF hr <= 45 * PCT /\ Lt(mean, Num(-20)) THEN "bearish"
        ELSE IF rr_gt_1_5 /\ Gt(mean, Num(0)) THEN "asymmetric_bullish"
        ELSE IF rr_gt_1_5 /\ Lt(mean, Num(0)) THEN "asymmetric_bearish"
        ELSE "neutral"

\* calculate_edge_quality(agg_df): adds risk_reward_5d, expectancy_5d, edge_class
calculate_edge_quality(table) ==
    [k \in 1..Len(table) |->
        [f \in DOMAIN table[k] \cup {"risk_reward_5d", "expectancy_5d", "edge_class"} |->
            CASE f = "risk_reward_5d" -> RiskReward(table[k])
              [] f = "expectancy_5d"  -> Expectancy(table[k])
              [] f = "edge_class"     -> classify_edge(table[k])
              [] OTHER                -> table[k][f]]]

\* sort_values("confidence_score", ascending=False): every order of the rows
\* with non-increasing score (the order of equal scores is not specified)
SortedByConfidence(table) ==
    LET n == Len(table)
        Ordered(perm) == \A k \in 1..(n - 1) :
            table[perm[k]].confidence_score >= table[perm[k + 1]].confidence_score
    IN  {[k \in 1..n |-> table[perm[k]]] : perm \in {q \in Permutations(1..n) : Ordered(q)}}

\* the state keys of the model's backtest files, in groupby (sorted) order
AggKeys == <<"Rd_Mc_Pt", "Ru_Ma_Pc">>

\* the loop over valid_df.groupby("state_hash"), from the k-th key on
RECURSIVE AggList(_, _, _)
AggList(valid_df, min_rows, k) ==
    IF k > Len(AggKeys) THEN <<>>
    ELSE LET InGroup(rec) == rec.state_hash = AggKeys[k]
             group == SelectSeq(valid_df, InGroup)
         IN  IF Len(group) = 0 \/ Len(group) < min_rows
             THEN AggList(valid_df, min_rows, k + 1)
             ELSE <<GroupRow(AggKeys[k], group)>> \o AggList(valid_df, min_rows, k + 1)

\* aggregate_by_state(df, min_samples): the frames it can return
aggregate_by_state(df, min_rows) ==
    LET valid_df == ValidRows(df)
        agg_list == AggList(valid_df, min_rows, 1)
    IN  IF Len(agg_list) = 0 THEN {<<>>}
        ELSE SortedByConfidence(
                 calculate_edge_quality(calculate_confidence_scores(agg_list)))

-----------------------------------------------------------------------------
(* The aggregator on backtest files (specification SpecAgg) *)

MaxWins == 6

\* a row of backtest_<metal>.csv: a winning, losing or flat observation, a
\* late one (no bar D+20: valid is False) or one whose closes are NaN
ObsRow(state_hash, kind) ==
    LET up == state_hash = "Ru_Ma_Pc"
        base == [state_hash |-> state_hash,
                 regime |-> IF up THEN "uptrend" ELSE "downtrend",
                 momentum |-> IF up THEN "accelerating" ELSE "cooling",
                 participation |-> IF up THEN "confirming" ELSE "thinning"]
        Obs(valid, r5, r10, r20, mae5, mfe5, mae20, mfe20) ==
            [f \in DOMAIN base \cup {"valid", "fwd_5d_return", "fwd_10d_return",
                                     "fwd_20d_return", "fwd_5d_mae", "fwd_5d_mfe",
                                     "fwd_20d_mae", "fwd_20d_mfe"} |->
                CASE f = "valid" -> valid
                  [] f = "fwd_5d_return" -> r5
                  [] f = "fwd_10d_return" -> r10
                  [] f = "fwd_20d_return" -> r20
                  [] f = "fwd_5d_mae" -> mae5
                  [] f = "fwd_5d_mfe" -> mfe5
                  [] f = "fwd_20d_mae" -> mae20
                  [] f = "fwd_20d_mfe" -> mfe20
                  [] OTHER -> base[f]]
    IN  CASE kind = "win"  -> Obs(TRUE, Num(150), Num(250), Num(-100),
                                  Num(-50), Num(200), Num(-150), Num(300))
          [] kind = "loss" -> Obs(TRUE, Num(-120), Num(30), Num(-300),
                                  Num(-200), Num(40), Num(-400), Num(60))
          [] kind = "flat" -> Obs(TRUE, Num(0), Num(0), Num(0),
                                  Num(0), Num(0), Num(0), Num(0))
          [] kind = "late" -> Obs(FALSE, Num(900), None, None,
                                  Num(0), Num(900), None, None)
          [] OTHER         -> Obs(TRUE, NaN, NaN, NaN, NaN, NaN, NaN, NaN)

Repeat(rec, n) == [k \in 1..n |-> rec]

\* the backtest files the model aggregates: per key, some winning, losing,
\* flat or NaN, and late observations
BacktestFiles ==
    {   Repeat(ObsRow("Ru_Ma_Pc", "win"), wa) \o Repeat(ObsRow("Rd_Mc_Pt", "loss"), lb)
     \o Repeat(ObsRow("Ru_Ma_Pc", "late"), ta) \o Repeat(ObsRow("Rd_Mc_Pt", "win"), wb)
     \o Repeat(ObsRow("Ru_Ma_Pc", "loss"), la) \o Repeat(ObsRow("Rd_Mc_Pt", "nan"), nb)
     \o Repeat(ObsRow("Ru_Ma_Pc", "flat"), fa) \o Repeat(ObsRow("Rd_Mc_Pt", "late"), tb) :
        wa \in {0, 1, MaxWins}, la \in {0, 3, 4}, fa \in {0, 1}, ta \in {0, 5},
        wb \in {0, 1, MaxWins}, lb \in {0, 3, 4}, nb \in {0, 1}, tb \in {0, 5} }

MinSamplesValues == {1, 3, DEFAULT_MIN_SAMPLES}

AggInit ==
    /\ backtest_df = <<>>
    /\ min_samples = DEFAULT_MIN_SAMPLES
    /\ agg_df = <<>>
    /\ pc = "agg_start"
    /\ WalkIdle /\ LookIdle /\ EncIdle /\ ServeIdle /\ ExtIdle

\* load_backtest_results: the file is read, or it does not exist
LoadBacktestResults ==
    /\ pc = "agg_start"
    /\ \/ /\ backtest_df' \in BacktestFiles
          /\ pc' = "agg_loaded"
       \/ /\ UNCHANGED backtest_df
          /\ pc' = "agg_no_results"
    /\ UNCHANGED <<min_samples, agg_df>>
    /\ UNCHANGED <<full_history, loadable, observation_dates, i, records, skipped>>
    /\ UNCHANGED <<lookvars, encvars, servevars, extvars>>

\* aggregate_by_state(results, min_samples)
AggregateByState ==
    /\ pc = "agg_loaded"
    /\ \E ms \in MinSamplesValues :
         /\ min_samples' = ms
         /\ agg_df' \in aggregate_by_state(backtest_df, ms)
    /\ pc' = "agg_done"
    /\ UNCHANGED backtest_df
    /\ UNCHANGED <<full_history, loadable, observation_dates, i, records, skipped>>
    /\ UNCHANGED <<lookvars, encvars, servevars, extvars>>

AggNext ==
    \/ LoadBacktestResults
    \/ AggregateByState

SpecAgg == AggInit /\ [][AggNext]_vars

-----------------------------------------------------------------------------
(* calculate_confidence_scores on one-row tables (specification SpecConf) *)

\* rows a group of n_samples observations can aggregate to: the hit rate is
\* a share of n_samples, one observation has no deviation, and observations
\* without deviation are all wins or all misses
ScoreRows ==
    {row \in [n_samples : {1, 10, 50, 100, 150},
              mean_5d : {Num(m) : m \in {-100, -1, 0, 1, 2, 100, 250}},
              std_5d : {NaN} \cup {Num(sd) : sd \in {0, 50, 200, 700}},
              hit_rate_5d : {0, 2000, 5000, 6200, 10000}] :
        /\ (row.hit_rate_5d * row.n_samples) % (100 * PCT) = 0
        /\ (row.n_samples = 1) <=> (row.std_5d = NaN)
        /\ row.std_5d = Num(0) => row.hit_rate_5d \in {0, 10000}
        /\ (row.std_5d = Num(0) /\ Val(row.mean_5d) > 0) => row.hit_rate_5d = 10000
        /\ (row.std_5d = Num(0) /\ Val(row.mean_5d) <= 0) => row.hit_rate_5d = 0}

ConfInit ==
    /\ backtest_df = <<>>
    /\ min_samples = DEFAULT_MIN_SAMPLES
    /\ agg_df \in {<<row>> : row \in ScoreRows}
    /\ pc = "conf_start"
    /\ WalkIdle /\ LookIdle /\ EncIdle /\ ServeIdle /\ ExtIdle

CalculateConfidenceScores ==
    /\ pc = "conf_start"
    /\ agg_df' = calculate_confidence_scores(agg_df)
    /\ pc' = "conf_done"
    /\ UNCHANGED <<backtest_df, min_samples>>
    /\ UNCHANGED <<full_history, loadable, observation_dates, i, records, skipped>>
    /\ UNCHANGED <<lookvars, encvars, servevars, extvars>>

ConfNext == CalculateConfidenceScores

SpecConf == ConfInit /\ [][ConfNext]_vars

-----------------------------------------------------------------------------
(* calculate_edge_quality on one-row tables (specification SpecEdge) *)

\* rows a group can aggregate to, around the thresholds of classify_edge: a
\* 5-day return lies between the 5-day MAE (<= 0) and MFE (>= 0) of its
\* observation, all wins give a positive mean, no win a mean <= 0 or NaN
EdgeRows ==
    {row \in [hit_rate_5d : {0, 3900, 4000, 4500, 4600, 5400, 5500, 5900, 6000, 10000},
              mean_5d : {NaN} \cup {Num(m) : m \in {-51, -50, -21, -20, -1, 0, 1, 20, 21, 50, 51}},
              avg_mfe_5d : {NaN} \cup {Num(f) : f \in {0, 60, 100, 151, 300}},
              avg_mae_5d : {NaN} \cup {Num(a) : a \in {-200, -100, -60, 0}}] :
        /\ row.mean_5d = NaN => row.hit_rate_5d = 0
        /\ row.hit_rate_5d = 0 => ~Gt(row.mean_5d, Num(0))
        /\ row.hit_rate_5d = 100 * PCT => Gt(row.mean_5d, Num(0))
        /\ ~Gt(row.mean_5d, row.avg_mfe_5d)
        /\ ~Lt(row.mean_5d, row.avg_mae_5d)}

EdgeInit ==
    /\ backtest_df = <<>>
    /\ min_samples = DEFAULT_MIN_SAMPLES
    /\ agg_df \in {<<row>> : row \in EdgeRows}
    /\ pc = "edge_start"
    /\ WalkIdle /\ LookIdle /\ EncIdle /\ ServeIdle /\ ExtIdle

CalculateEdgeQuality ==
    /\ pc = "edge_start"
    /\ agg_df' = calculate_edge_quality(agg_df)
    /\ pc' = "edge_done"
    /\ UNCHANGED <<backtest_df, min_samples>>
    /\ UNCHANGED <<full_history, loadable, observation_dates, i, records, skipped>>
    /\ UNCHANGED <<lookvars, encvars, servevars, extvars>>

SpecEdge == EdgeInit /\ [][CalculateEdgeQuality]_vars

-----------------------------------------------------------------------------
(* get_five_pillar_analysis on live snapshots (specification SpecPillar) *)

\* a complete indicator snapshot: price 110, 200-average 100, 50-average 105,
\* 50-average slope +2.0%, ADX 25, everything pointing up
BaseIndicators ==
    [spot_price |-> Num(110 * PCT), last_close |-> Num(110 * PCT),
     sma200 |-> Num(100 * PCT), sma50 |-> Num(105 * PCT),
     sma50_slope |-> Num(2 * PCT), adx |-> Num(25 * PCT),
     macd_histogram_slope |-> "rising",
     rsi_momentum |-> [error |-> FALSE, current |-> Num(60 * PCT), direction |-> "rising"],
     rsi_divergence |-> "None",
     up_down_volume |-> [error |-> FALSE, vol_ratio |-> [num |-> 12, den |-> 10],
                         interpretation |-> interpret_ratio([num |-> 12, den |-> 10])],
     obv_slope |-> Num(PCT), obv_vs_sma |-> "above", trend |-> "uptrend"]

\* the cot_data argument: None, an error dict, or a dict whose two
\* percentile keys hold a whole percentage or nothing
CotInputs ==
    LET Pct == {None} \cup {Num(q) : q \in {0, 1, 19, 20, 21, 34, 35, 36, 50,
                                            64, 65, 66, 79, 80, 81, 99, 100}}
    IN  {NoCot, [NoCot EXCEPT !.present = TRUE, !.error = TRUE]}
        \cup {[present |-> TRUE, error |-> FALSE,
                managed_money_percentile |-> a, mm_percentile |-> b] :
               a \in Pct, b \in Pct}

\* the calls of get_five_pillar_analysis the model makes: the inputs of one
\* pillar vary (values on both sides of every threshold, null and absent
\* ones), the other pillars keep the base snapshot
PillarInputs ==
    LET Call(ind, tw, cot) == [indicators |-> ind, macro_tailwind |-> tw, cot_data |-> cot]
        Up(num, den) == [error |-> FALSE, vol_ratio |-> [num |-> num, den |-> den],
                         interpretation |-> interpret_ratio([num |-> num, den |-> den])]
        RegimeCalls ==
            {Call([BaseIndicators EXCEPT !.spot_price = sp, !.last_close = lc,
                       !.sma200 = s200, !.sma50 = s50, !.sma50_slope = sl, !.adx = ax],
                  BacktestTailwind, NoCot) :
                sp \in {None, Num(110 * PCT)},
                lc \in {None, Absent} \cup {Num(q * PCT) : q \in {90, 97, 98, 100, 102, 103, 110}},
                s200 \in {None, Absent, Num(100 * PCT)},
                s50 \in {None, Num(95 * PCT), Num(105 * PCT)},
                sl \in {None, Absent} \cup {Num(q) : q \in {-200, -21, -20, 0, 20, 21, 200}},
                ax \in {None, Absent} \cup {Num(q) : q \in {1700, 1800, 1801, 2500}}}
        MomentumCalls ==
            {Call([BaseIndicators EXCEPT !.macd_histogram_slope = ms,
                       !.rsi_momentum.direction = rd, !.rsi_divergence = dv, !.trend = tr],
                  BacktestTailwind, NoCot) :
                ms \in {"rising", "falling", "flat", "unknown", PyNone, Missing},
                rd \in {"rising", "falling", "flat", Missing},
                dv \in {"None", "bearish", "bullish", Missing},
                tr \in {"uptrend", "downtrend", "chop", Missing}}
        ParticipationCalls ==
            {Call([BaseIndicators EXCEPT !.up_down_volume = ud, !.obv_slope = os,
                       !.obv_vs_sma = ov, !.trend = tr],
                  BacktestTailwind, NoCot) :
                ud \in {NoUpDown, Up(2, 1), Up(12, 10), Up(1, 1), Up(8, 10)},
                os \in {None, Absent, Num(-PCT), Num(0), Num(PCT)},
                ov \in {"above", "below", "unknown", Missing},
                tr \in {"uptrend", "downtrend", "chop"}}
        TailwindCalls ==
            {Call(BaseIndicators, [status |-> st], NoCot) :
                st \in {"supportive", "neutral", "hostile", PyNone, Missing}}
        PositioningCalls ==
            {Call(BaseIndicators, BacktestTailwind, cot) : cot \in CotInputs}
    IN  RegimeCalls \cup MomentumCalls \cup ParticipationCalls
        \cup TailwindCalls \cup PositioningCalls

PillarInit ==
    /\ \E call \in PillarInputs :
          /\ live_indicators = call.indicators
          /\ live_tailwind = call.macro_tailwind
          /\ live_cot = call.cot_data
    /\ live_pillars = <<>>
    /\ pc = "pillar_start"
    /\ WalkIdle /\ LookIdle /\ EncIdle /\ AggIdle /\ ServeIdle /\ MainIdle /\ LaterIdle

GetFivePillarAnalysis ==
    /\ pc = "pillar_start"
    /\ live_pillars' = get_five_pillar_analysis(live_indicators, live_tailwind, live_cot)
    /\ pc' = "pillar_done"
    /\ UNCHANGED <<live_indicators, live_tailwind, live_cot, mainvars, latervars>>
    /\ UNCHANGED <<full_history, loadable, observation_dates, i, records, skipped>>
    /\ UNCHANGED <<lookvars, encvars, aggvars, servevars>>

SpecPillar == PillarInit /\ [][GetFivePillarAnalysis]_vars

-----------------------------------------------------------------------------
(* compute_indicators_from_df on short series (specification SpecInd) *)

\* OHLCV series from no bar at all up to just past the 50-average slope's
\* 70 bars
ShortHistories ==
    {MkHistory(s, n, t) : s \in Shapes, n \in {0, 1, 20, 49, 50, 69, 70, 71},
                          t \in [1..TailLen -> TailDeltas]}

IndInit ==
    /\ full_history \in ShortHistories
    /\ loadable = TRUE
    /\ observation_dates = <<>>
    /\ i = 0
    /\ records = <<>>
    /\ skipped = 0
    /\ pc = "ind_start"
    /\ LookIdle /\ EncIdle /\ AggIdle /\ ServeIdle /\ ExtIdle

ComputeIndicators ==
    /\ pc = "ind_start"
    /\ live_indicators' = compute_indicators_from_df(full_history)
    /\ pc' = "ind_done"
    /\ UNCHANGED <<live_tailwind, live_cot, live_pillars, mainvars, latervars>>
    /\ UNCHANGED <<full_history, loadable, observation_dates, i, records, skipped>>
    /\ UNCHANGED <<lookvars, encvars, aggvars, servevars>>

SpecInd == IndInit /\ [][ComputeIndicators]_vars

-----------------------------------------------------------------------------
(* forward_expectations.py: the expectation server *)

\* the response when no aggregated table exists
NoTableResponse(metal, state_hash, state_readable) ==
    [metal |-> metal, state_hash |-> state_hash,
     state_readable |-> state_readable, has_data |-> FALSE,
     message |-> "No backtest data available",
     suggestion |-> "Historical statistics not yet computed"]

\* the response when the table has no row for the key
RareStateResponse(metal, state_hash, state_readable, agg_stats) ==
    [metal |-> metal, state_hash |-> state_hash,
     state_readable |-> state_readable, has_data |-> FALSE,
     message |-> "This state combination is rare in historical data",
     suggestion |-> "Insufficient observations - use caution and rely on other signals",
     total_states_available |-> Len(agg_stats)]

\* the expectations of one horizon
HorizonExpectation(mean, median, std, hit_rate) ==
    [mean |-> mean, median |-> median, std |-> std,
     hit_rate |-> Round1(Num(hit_rate)),
     direction |-> classify_expected_return(mean)]

\* the response built from the matching row
FoundResponse(metal, state_hash, state_readable, stats, current_five_pillar_in, current) ==
    [metal |-> metal, state_hash |-> state_hash,
     state_readable |-> state_readable, has_data |-> TRUE,
     n_samples |-> stats.n_samples,
     confidence_score |-> Round1(Num(stats.confidence_score)),
     edge_class |-> stats.edge_class,
     expectations |->
        [d5 |-> [f \in {"mean", "median", "std", "hit_rate", "direction",
                        "typical_range"} |->
                    IF f = "typical_range"
                    THEN <<Minus(stats.median_5d, stats.std_5d),
                           Plus(stats.median_5d, stats.std_5d)>>
                    ELSE HorizonExpectation(stats.mean_5d, stats.median_5d,
                                            stats.std_5d, stats.hit_rate_5d)[f]],
         d10 |-> HorizonExpectation(stats.mean_10d, stats.median_10d,
                                    stats.std_10d, stats.hit_rate_10d),
         d20 |-> HorizonExpectation(stats.mean_20d, stats.median_20d,
                                    stats.std_20d, stats.hit_rate_20d)],
     risk_metrics |->
        [avg_drawdown_5d |-> stats.avg_mae_5d,
         worst_drawdown_5d |-> stats.worst_mae_5d,
         avg_runup_5d |-> stats.avg_mfe_5d,
         risk_reward_ratio |-> stats.risk_reward_5d,
         expectancy_5d |-> stats.expectancy_5d],
     warnings |-> generate_risk_warnings(stats, current_five_pillar_in),
     invalidation |-> calculate_invalidation_level(current_five_pillar_in, stats),
     current_state |-> current]

\* get_forward_expectations that serves a row only to a state whose
\* positioning is known
get_forward_expectations_positioning_gate(current_five_pillar_in, metal, file) ==
    LET regime == GetOr(current_five_pillar_in.regime, "unknown")
        momentum == GetOr(current_five_pillar_in.momentum.phase, "unknown")
        participation == GetOr(current_five_pillar_in.participation, "unknown")
        tailwind == GetOr(current_five_pillar_in.tailwind, "neutral")
        positioning == GetOr(current_five_pillar_in.positioning, "unknown")
        state_hash == fe_encode_state_hash(regime, momentum, participation,
                                           PyNone, PyNone, FALSE)
        state_readable == format_state_readable(regime, momentum, participation)
        agg_stats == load_aggregated_stats(file)
    IN  IF agg_stats = None
        THEN NoTableResponse(metal, state_hash, state_readable)
        ELSE
        LET Matches(row) == row.state_hash = state_hash /\ positioning # "unknown"
            state_match == SelectSeq(agg_stats[1], Matches)
        IN  IF Len(state_match) = 0
            THEN RareStateResponse(metal, state_hash, state_readable, agg_stats[1])
            ELSE FoundResponse(metal, state_hash, state_readable, state_match[1],
                               current_five_pillar_in,
                               [regime |-> regime, momentum |-> momentum,
                                participation |-> participation,
                                tailwind |-> tailwind, positioning |-> positioning])

\* get_forward_expectations(current_five_pillar, metal) reading the table file
get_forward_expectations(current_five_pillar_in, metal, file) ==
    LET regime == GetOr(current_five_pillar_in.regime, "unknown")
        momentum == GetOr(current_five_pillar_in.momentum.phase, "unknown")
        participation == GetOr(current_five_pillar_in.participation, "unknown")
        tailwind == GetOr(current_five_pillar_in.tailwind, "neutral")
        positioning == GetOr(current_five_pillar_in.positioning, "unknown")
        state_hash == fe_encode_state_hash(regime, momentum, participation,
                                           PyNone, PyNone, FALSE)
        state_readable == format_state_readable(regime, momentum, participation)
        agg_stats == load_aggregated_stats(file)
    IN  IF agg_stats = None
        THEN NoTableResponse(metal, state_hash, state_readable)
        ELSE
        LET Matches(row) == row.state_hash = state_hash
            state_match == SelectSeq(agg_stats[1], Matches)
        IN  IF Len(state_match) = 0
            THEN RareStateResponse(metal, state_hash, state_readable, agg_stats[1])
            ELSE FoundResponse(metal, state_hash, state_readable, state_match[1],
                               current_five_pillar_in,
                               [regime |-> regime, momentum |-> momentum,
                                participation |-> participation,
                                tailwind |-> tailwind, positioning |-> positioning])

-----------------------------------------------------------------------------
(* The expectation server on saved tables (specification SpecServe) *)

Regimes == <<"uptrend", "downtrend", "range">>
MomentumPhases == <<"accelerating", "cooling", "diverging", "steady">>
ParticipationStatuses ==
    <<"confirming", "thinning", "distribution", "accumulation", "neutral">>

\* the j-th aggregated row of a saved table (j >= 1): its key and pillars,
\* and the statistics of a group of 10 + j observations
TableRow(j) ==
    LET regime == Regimes[(j % 3) + 1]
        momentum == MomentumPhases[((j \div 3) % 4) + 1]
        participation == ParticipationStatuses[((j \div 12) % 5) + 1]
        wins   == 1 + ((7 * j) % (9 + j))
        group  == Repeat(ObsRow("Ru_Ma_Pc", "win"), wins)
                  \o Repeat(ObsRow("Ru_Ma_Pc", "loss"), 10 + j - wins)
        key    == encode_state_hash(regime, momentum, participation,
                                    PyNone, PyNone, FALSE)
        row    == [GroupRow(key, group) EXCEPT !.regime = regime,
                       !.momentum = momentum, !.participation = participation]
    IN  calculate_edge_quality(calculate_confidence_scores(<<row>>))[1]

\* save_aggregated_results of a table of k rows
SavedTable(k) == [exists |-> TRUE, rows |-> [j \in 1..k |-> TableRow(j)]]

TableSizes == {1, 3, 50}

\* the live analyses: what get_five_pillar_analysis returns, or a dict that
\* lacks the regime or the momentum
LiveStates ==
    {st \in [regime : {"uptrend", "downtrend", "range", Missing},
             momentum : [phase : {"accelerating", "cooling", "diverging",
                                  "steady", Missing},
                         divergence_type : {"None", "bearish"}],
             participation : {"confirming", "thinning", "distribution",
                              "accumulation", "neutral"},
             tailwind : {"neutral", "supportive", "hostile"},
             positioning : {"unknown", "crowded_long", "washed_out"}] :
        (st.momentum.divergence_type # "None") <=> (st.momentum.phase = "diverging")}

ServeInit ==
    /\ agg_file = [exists |-> FALSE, rows |-> <<>>]
    /\ current_five_pillar = <<>>
    /\ response = <<>>
    /\ pc = "serve"
    /\ WalkIdle /\ LookIdle /\ EncIdle /\ AggIdle /\ ExtIdle

\* the aggregator saves a table (it saves only tables with rows)
SaveAggregatedResults ==
    /\ pc = "serve"
    /\ response = <<>>
    /\ ~agg_file.exists
    /\ \E k \in TableSizes : agg_file' = SavedTable(k)
    /\ UNCHANGED <<current_five_pillar, response>>
    /\ UNCHANGED <<walkvars, lookvars, encvars, aggvars, extvars>>

\* a caller asks for the expectations of the live state
GetForwardExpectations ==
    /\ pc = "serve"
    /\ response = <<>>
    /\ \E live \in LiveStates :
         /\ current_five_pillar' = <<live>>
         /\ response' = <<get_forward_expectations(live, "gold", agg_file)>>
    /\ UNCHANGED agg_file
    /\ UNCHANGED <<walkvars, lookvars, encvars, aggvars, extvars>>

ServeNext ==
    \/ SaveAggregatedResults
    \/ GetForwardExpectations

SpecServe == ServeInit /\ [][ServeNext]_vars

-----------------------------------------------------------------------------
(* The aggregation job and a reader of its table (specification SpecMain) *)

\* the observation datasets the runs aggregate: both keys reach min_samples,
\* one key does, no key does
MainDatasets ==
    {Repeat(ObsRow("Ru_Ma_Pc", "win"), 12) \o Repeat(ObsRow("Rd_Mc_Pt", "loss"), 11),
     Repeat(ObsRow("Ru_Ma_Pc", "win"), 10) \o Repeat(ObsRow("Rd_Mc_Pt", "loss"), 3),
     Repeat(ObsRow("Ru_Ma_Pc", "win"), 2) \o Repeat(ObsRow("Rd_Mc_Pt", "flat"), 2)}

MainInit ==
    /\ backtest_df \in MainDatasets
    /\ min_samples = DEFAULT_MIN_SAMPLES
    /\ agg_df = <<>>
    /\ agg_file = [exists |-> FALSE, rows |-> <<>>]
    /\ old_file = [exists |-> FALSE, rows |-> <<>>]
    /\ loaded_stats = <<>>
    /\ current_five_pillar = <<>>
    /\ response = <<>>
    /\ live_indicators = <<>>
    /\ live_tailwind = <<>>
    /\ live_cot = <<>>
    /\ live_pillars = <<>>
    /\ pc = "main_start"
    /\ WalkIdle /\ LookIdle /\ EncIdle /\ LaterIdle

\* the variables the aggregation job and the reader never touch
MainRest ==
    /\ UNCHANGED <<current_five_pillar, response>>
    /\ UNCHANGED <<live_indicators, live_tailwind, live_cot, live_pillars>>
    /\ UNCHANGED <<full_history, loadable, observation_dates, i, records, skipped>>
    /\ UNCHANGED <<lookvars, encvars, latervars>>

\* __main__: load_backtest_results, aggregate_by_state, and the test
\* len(agg) > 0 that decides whether the table is saved
MainAggregate ==
    /\ pc = "main_start"
    /\ agg_df' \in aggregate_by_state(backtest_df, min_samples)
    /\ pc' = IF Len(agg_df') > 0 THEN "main_save" ELSE "main_done"
    /\ UNCHANGED <<backtest_df, min_samples, agg_file, old_file, loaded_stats>>
    /\ MainRest

\* save_aggregated_results: to_csv opens the table file for writing, which
\* truncates it in place
SaveOpen ==
    /\ pc = "main_save"
    /\ agg_file' = [exists |-> TRUE, rows |-> <<>>]
    /\ pc' = "main_writing"
    /\ UNCHANGED <<backtest_df, min_samples, agg_df, old_file, loaded_stats>>
    /\ MainRest

\* to_csv: the next rows reach the file (the first ones with the header)
SaveWrite ==
    /\ pc = "main_writing"
    /\ \E n \in (Len(agg_file.rows) + 1)..Len(agg_df) :
          agg_file' = [exists |-> TRUE, rows |-> SubSeq(agg_df, 1, n)]
    /\ UNCHANGED <<pc, backtest_df, min_samples, agg_df, old_file, loaded_stats>>
    /\ MainRest

\* to_csv returns: the file is closed with every row in it
SaveClose ==
    /\ pc = "main_writing"
    /\ agg_file.rows = agg_df
    /\ old_file' = agg_file
    /\ pc' = "main_done"
    /\ UNCHANGED <<backtest_df, min_samples, agg_df, agg_file, loaded_stats>>
    /\ MainRest

\* backtest_runner writes a new backtest_<metal>.csv and the job is run again
NewObservations ==
    /\ pc = "main_done"
    /\ backtest_df' \in MainDatasets \ {backtest_df}
    /\ pc' = "main_start"
    /\ UNCHANGED <<min_samples, agg_df, agg_file, old_file, loaded_stats>>
    /\ MainRest

\* get_forward_expectations, in the server process, calls
\* load_aggregated_stats at any moment; read_csv of a file without a byte
\* raises EmptyDataError
LoadAggregatedStats ==
    /\ loaded_stats' = IF agg_file.exists /\ Len(agg_file.rows) = 0
                       THEN [raised |-> TRUE, stats |-> <<>>]
                       ELSE [raised |-> FALSE, stats |-> load_aggregated_stats(agg_file)]
    /\ UNCHANGED <<pc, backtest_df, min_samples, agg_df, agg_file, old_file>>
    /\ MainRest

MainNext ==
    \/ MainAggregate
    \/ SaveOpen
    \/ SaveWrite
    \/ SaveClose
    \/ NewObservations
    \/ LoadAggregatedStats

SpecMain == MainInit /\ [][MainNext]_vars

-----------------------------------------------------------------------------
(* The walk over a history with a data gap (specification SpecGap)         *)
(* One row of the history file has an empty Close cell (NaN), the other    *)
(* columns of the row are filled.  gap_date is the date of that row.       *)

\* up_down_volume_ratio(close, volume, 10) as compute_indicators_from_df
\* calls it: close is df["Close"].dropna(), volume is df["Volume"].  The
\* masks carry the index of the last ten closes, recent_volume the index of
\* the last ten rows; recent_volume[up_mask] (or [down_mask]) raises
\* IndexingError (unalignable boolean Series) when a row of recent_volume has
\* no entry in the mask, which is when the gap is one of the last ten rows.
up_down_volume_ratio_raises(df, gap, lookback) ==
    LET n        == Len(df)
        HasClose(bar) == bar.date # gap
        close    == CloseOf(SelectSeq(df, HasClose))
        m        == Len(close)
        recent   == (m - lookback + 1)..m
        up_any   == \E k \in recent : k > 1 /\ close[k] > close[k - 1]
        down_any == \E k \in recent : k > 1 /\ close[k] < close[k - 1]
        gap_in_recent_volume ==
            \E k \in (n - lookback + 1)..n : k >= 1 /\ df[k].date = gap
    IN  /\ m >= lookback + 1
        /\ n >= lookback
        /\ (up_any \/ down_any)
        /\ gap_in_recent_volume

\* compute_state_for_date: compute_indicators_from_df is called outside the
\* try block, so what it raises leaves compute_state_for_date
compute_state_for_date_raises(history, gap, d) ==
    LET sliced_df == slice_to_date(history, d) IN
    /\ Len(sliced_df) >= WARMUP_DAYS
    /\ up_down_volume_ratio_raises(sliced_df, gap, 10)

\* the rows whose Close may be missing: none, or one of the last rows, so
\* that every slice that holds the gap holds it in its last ten rows
GapDates(history) ==
    {0, DateOf(Len(history) - 5), DateOf(Len(history) - 2)}

GapInit ==
    /\ loadable = TRUE
    /\ full_history \in {MkHistory(s, n, [j \in 1..TailLen |-> 9]) :
                             s \in Shapes, n \in {MinBars, MaxBars}}
    /\ gap_date \in GapDates(full_history)
    /\ observation_dates = <<>>
    /\ i = 0
    /\ records = <<>>
    /\ skipped = 0
    /\ pc = "init"
    /\ LookIdle /\ EncIdle /\ AggIdle /\ ServeIdle
    /\ live_indicators = <<>>
    /\ live_tailwind = <<>>
    /\ live_cot = <<>>
    /\ live_pillars = <<>>
    /\ MainIdle
    /\ LastIdle

\* run_backtest: one iteration of the loop; there is no try around
\* compute_state_for_date, so an exception ends run_backtest
WalkDateWithGap ==
    /\ pc = "walk"
    /\ i < Len(observation_dates)
    /\ LET d == observation_dates[i + 1] IN
       IF compute_state_for_date_raises(full_history, gap_date, d)
       THEN /\ pc' = "raised"            \* IndexingError leaves run_backtest
            /\ UNCHANGED <<i, records, skipped>>
       ELSE LET state == compute_state_for_date(full_history, d) IN
            /\ IF state = None
               THEN /\ skipped' = skipped + 1
                    /\ UNCHANGED records
               ELSE /\ records' = Append(records,
                           MakeRecord(full_history, state[1],
                                      calculate_forward_returns(full_history, d)))
                    /\ UNCHANGED skipped
            /\ i' = i + 1
            /\ UNCHANGED pc
    /\ UNCHANGED <<full_history, loadable, observation_dates>>
    /\ UNCHANGED <<lookvars, encvars, aggvars, servevars, extvars>>

GapNext ==
    \/ RunBacktestStart
    \/ WalkDateWithGap
    \/ RunBacktestFinish

SpecGap == GapInit /\ [][GapNext]_vars

-----------------------------------------------------------------------------
(* The direction label of a mean return (specification SpecDir) *)

\* the largest mean return, in hundredths of a percent, on either side of 0
MaxMean == 150

\* the mean_5d, mean_10d, mean_20d cells of a table row: a number, or NaN
MeanReturns == {Num(x) : x \in (-MaxMean)..MaxMean} \cup {NaN}

DirInit ==
    /\ live_mean \in MeanReturns
    /\ live_direction = ""
    /\ TrackIdle
    /\ pc = "dir_start"
    /\ EarlierIdle

\* get_forward_expectations: "direction": classify_expected_return(stats["mean_5d"])
ClassifyExpectedReturn ==
    /\ pc = "dir_start"
    /\ live_direction' = classify_expected_return(live_mean)
    /\ pc' = "dir_done"
    /\ UNCHANGED <<live_mean, earliervars, trackvars>>

SpecDir == DirInit /\ [][ClassifyExpectedReturn]_vars

-----------------------------------------------------------------------------
(* The walk over a strictly rising series, then its aggregation            *)
(* (specification SpecRise)                                                *)

\* a history whose close rises on every bar, by 1 or by 3
RisingHistory(n, c0) ==
    [k \in 1..n |->
        LET c == c0 + 2 * k + (k % 2)
        IN  [date |-> DateOf(k), close |-> c, high |-> c + 1, low |-> c - 1,
             volume |-> 10 + ((3 * k) % 7)]]

RisingHistories == {RisingHistory(n, c0) : n \in MinBars..MaxBars, c0 \in {100, 300}}

\* aggregate_by_state(df, min_samples) over whatever keys the frame holds:
\* one row per key with at least min_samples valid rows, then the scores,
\* the edge columns and the sort on confidence_score
aggregate_records(df, min_rows) ==
    LET valid_df == ValidRows(df)
        Group(key) == LET InGroup(rec) == rec.state_hash = key
                      IN  SelectSeq(valid_df, InGroup)
        kept == {key \in {valid_df[k].state_hash : k \in 1..Len(valid_df)} :
                    Len(Group(key)) >= min_rows}
        RowOf(key) == calculate_edge_quality(
                          calculate_confidence_scores(<<GroupRow(key, Group(key))>>))[1]
        n == Cardinality(kept)
    IN  IF n = 0 THEN {<<>>}
        ELSE {[k \in 1..n |-> RowOf(order[k])] :
                order \in {o \in [1..n -> kept] :
                    /\ \A a, b \in 1..n : a # b => o[a] # o[b]
                    /\ \A a \in 1..(n - 1) :
                         RowOf(o[a]).confidence_score >= RowOf(o[a + 1]).confidence_score}}

RiseInit ==
    /\ loadable = TRUE
    /\ full_history \in RisingHistories
    /\ observation_dates = <<>>
    /\ i = 0
    /\ records = <<>>
    /\ skipped = 0
    /\ pc = "init"
    /\ LookIdle /\ EncIdle /\ AggIdle /\ ServeIdle /\ ExtIdle

\* backtest_aggregator __main__ on the frame run_backtest returned
AggregateRecords ==
    /\ pc = "done"
    /\ \E ms \in {1, 3} :
         /\ min_samples' = ms
         /\ agg_df' \in aggregate_records(records, ms)
    /\ backtest_df' = records
    /\ pc' = "rise_done"
    /\ UNCHANGED <<full_history, loadable, observation_dates, i, records, skipped>>
    /\ UNCHANGED <<lookvars, encvars, servevars, extvars>>

RiseNext ==
    \/ RunBacktestStart
    \/ WalkDate
    \/ RunBacktestFinish
    \/ AggregateRecords

SpecRise == RiseInit /\ [][RiseNext]_vars

-----------------------------------------------------------------------------
(* The state encoders on any pillar values (specification SpecEncAny)       *)

\* a truthy value that is not a str (a number, or the float NaN pandas reads
\* from an empty cell)
NotStr == "<not a str>"

\* encode_state_hash: `x.lower() if x else "unknown"` calls lower() on every
\* truthy argument; a value that is not a str has no lower() and the call
\* raises AttributeError.  The two encoders are the same text.
encode_state_hash_raises(regime, momentum, participation, tailwind, positioning, include_all) ==
    \/ regime = NotStr
    \/ momentum = NotStr
    \/ participation = NotStr
    \/ /\ include_all
       /\ (tailwind = NotStr \/ StrTruthy(tailwind))
       /\ (positioning = NotStr \/ StrTruthy(positioning))
       /\ (tailwind = NotStr \/ positioning = NotStr)

\* the pillar values given to the encoders: recognized, wrongly cased,
\* unrecognized, empty, None and not a str
AnyPillarStates ==
    [regime : {"uptrend", "Uptrend", "sideways", "", PyNone, NotStr},
     momentum : {"steady", "bogus", PyNone, NotStr},
     participation : {"neutral", "", NotStr},
     tailwind : {"mixed", "Hostile", PyNone, NotStr},
     positioning : {"washed_out", "unknown", "bogus", PyNone, NotStr}]

EncAnyInit ==
    /\ market_a \in AnyPillarStates
    /\ market_b = <<>>
    /\ keys = [encoder |-> "", include_all |-> FALSE, raised |-> FALSE, key |-> ""]
    /\ pc = "encany"
    /\ WalkIdle /\ LookIdle /\ AggIdle /\ ServeIdle /\ ExtIdle

\* one call of either encoder, with or without include_all
EncodeStateHash ==
    /\ pc = "encany"
    /\ keys.encoder = ""
    /\ \E include_all \in BOOLEAN, encoder \in {"runner", "live"} :
         LET st == market_a
             raised == encode_state_hash_raises(st.regime, st.momentum,
                           st.participation, st.tailwind, st.positioning, include_all)
             key == IF encoder = "runner"
                    THEN encode_state_hash(st.regime, st.momentum, st.participation,
                                           st.tailwind, st.positioning, include_all)
                    ELSE fe_encode_state_hash(st.regime, st.momentum, st.participation,
                                              st.tailwind, st.positioning, include_all)
         IN  keys' = [encoder |-> encoder, include_all |-> include_all,
                      raised |-> raised,
                      key |-> IF raised THEN "AttributeError" ELSE key]
    /\ UNCHANGED <<market_a, market_b>>
    /\ UNCHANGED <<walkvars, lookvars, aggvars, servevars, extvars>>

SpecEncAny == EncAnyInit /\ [][EncodeStateHash]_vars

-----------------------------------------------------------------------------
(* prediction_tracker.py: the prediction log written by two sessions       *)
(* (specification SpecLog)                                                  *)

\* prediction_tracker.calculate_invalidation_level(five_pillar, indicators,
\* spot_price)
pt_calculate_invalidation_level(regime, sma200) ==
    IF regime = "uptrend"
    THEN [trigger |-> "Close below SMA200",
          level |-> IF Falsy(sma200) THEN None ELSE sma200]
    ELSE IF regime = "downtrend"
    THEN [trigger |-> "Close above SMA200",
          level |-> IF Falsy(sma200) THEN None ELSE sma200]
    ELSE [trigger |-> "ADX > 25 with directional break", level |-> None]

\* the record log_prediction appends (the columns the model follows)
PredictionRecord(d, metal, spot_price, regime, sma200) ==
    LET inv == pt_calculate_invalidation_level(regime, sma200)
    IN  [date |-> d, metal |-> metal, spot_price |-> spot_price,
         invalidation_trigger |-> inv.trigger, invalidation_level |-> inv.level,
         was_invalidated |-> None, invalidation_date |-> None]

\* prediction_exists(date, metal) on the rows load_prediction_log returns
prediction_exists(log, d, metal) ==
    \E k \in 1..Len(log) : log[k].date = d /\ log[k].metal = metal

\* the browser sessions that run the tracker, each with the spot price it shows
Sessions == {"s1", "s2"}
SessionPrice(s) == IF s = "s1" THEN Num(2000 * PCT) ELSE Num(2001 * PCT)

\* each session makes at most MaxCalls calls
MaxCalls == 2
\* the ET dates predictions are logged for; get_today_et() returns the last
LogDates == {1, 2}
Today == 2
Metals == {"gold", "silver"}

NoResults == [gold |-> FALSE, silver |-> FALSE]
IdleSession ==
    [pc |-> "idle", op |-> "none", metal |-> "", date |-> 0, df |-> <<>>,
     results |-> NoResults, calls |-> 0]

LogInit ==
    /\ prediction_log = <<>>
    /\ log_sessions = [s \in Sessions |-> IdleSession]
    /\ price_history = <<>>
    /\ pc = "log"
    /\ EarlierIdle /\ DirIdle

LogRest == UNCHANGED <<pc, price_history, earliervars, dirvars>>

\* a session calls log_prediction(metal, ..., date)
CallLogPrediction(s) ==
    /\ log_sessions[s].pc = "idle"
    /\ log_sessions[s].calls < MaxCalls
    /\ \E metal \in Metals, d \in LogDates :
         log_sessions' = [log_sessions EXCEPT ![s] =
             [pc |-> "lp_exists", op |-> "log", metal |-> metal, date |-> d,
              df |-> <<>>, results |-> NoResults, calls |-> @.calls + 1]]
    /\ UNCHANGED prediction_log
    /\ LogRest

\* a session calls auto_log_daily: before the market close it returns at
\* once, after it it starts with gold
CallAutoLogDaily(s) ==
    /\ log_sessions[s].pc = "idle"
    /\ log_sessions[s].calls < MaxCalls
    /\ \E is_market_closed \in BOOLEAN :
         log_sessions' = [log_sessions EXCEPT ![s] =
             [pc |-> IF is_market_closed THEN "auto_exists" ELSE "idle",
              op |-> "auto", metal |-> "gold", date |-> Today,
              df |-> <<>>, results |-> NoResults, calls |-> @.calls + 1]]
    /\ UNCHANGED prediction_log
    /\ LogRest

\* the session after log_prediction returned or was not called for the
\* metal: auto_log_daily goes on with silver, every other call is over
AfterMetal(ses, returned) ==
    LET res == [ses.results EXCEPT ![ses.metal] = returned]
    IN  IF ses.op = "auto" /\ ses.metal = "gold"
        THEN [ses EXCEPT !.pc = "auto_exists", !.metal = "silver", !.results = res,
                         !.df = <<>>]
        ELSE [ses EXCEPT !.pc = "idle", !.results = res, !.df = <<>>]

\* auto_log_daily: `if not prediction_exists(today, metal)` reads the file
AutoExists(s) ==
    /\ log_sessions[s].pc = "auto_exists"
    /\ log_sessions' = [log_sessions EXCEPT ![s] =
           IF prediction_exists(prediction_log, @.date, @.metal)
           THEN AfterMetal(@, FALSE)
           ELSE [@ EXCEPT !.pc = "lp_exists"]]
    /\ UNCHANGED prediction_log
    /\ LogRest

\* log_prediction: `if prediction_exists(date, metal): return False`
LpExists(s) ==
    /\ log_sessions[s].pc = "lp_exists"
    /\ log_sessions' = [log_sessions EXCEPT ![s] =
           IF prediction_exists(prediction_log, @.date, @.metal)
           THEN AfterMetal(@, FALSE)
           ELSE [@ EXCEPT !.pc = "lp_load"]]
    /\ UNCHANGED prediction_log
    /\ LogRest

\* log_prediction: df = load_prediction_log()
LpLoad(s) ==
    /\ log_sessions[s].pc = "lp_load"
    /\ log_sessions' = [log_sessions EXCEPT ![s] =
           [@ EXCEPT !.pc = "lp_save", !.df = prediction_log]]
    /\ UNCHANGED prediction_log
    /\ LogRest

\* log_prediction: pd.concat([df, record]); save_prediction_log(df); return True
LpSave(s) ==
    /\ log_sessions[s].pc = "lp_save"
    /\ prediction_log' = Append(log_sessions[s].df,
           PredictionRecord(log_sessions[s].date, log_sessions[s].metal,
                            SessionPrice(s), "uptrend", Num(1900 * PCT)))
    /\ log_sessions' = [log_sessions EXCEPT ![s] = AfterMetal(@, TRUE)]
    /\ LogRest

LogNext ==
    \E s \in Sessions :
        \/ CallLogPrediction(s)
        \/ CallAutoLogDaily(s)
        \/ AutoExists(s)
        \/ LpExists(s)
        \/ LpLoad(s)
        \/ LpSave(s)

SpecLog == LogInit /\ [][LogNext]_vars

-----------------------------------------------------------------------------
(* prediction_tracker.py: the invalidation check of update_actuals          *)
(* (specification SpecInval)                                                *)

\* check_invalidation's default max_days
MAX_DAYS == 20

\* `"below" in invalidation_trigger.lower()` on the three trigger texts
TriggerHas(invalidation_trigger, word) ==
    CASE invalidation_trigger = "Close below SMA200" -> word = "below"
      [] invalidation_trigger = "Close above SMA200" -> word = "above"
      [] OTHER -> FALSE

\* check_invalidation(history, base_date, invalidation_level,
\* invalidation_trigger, max_days)
check_invalidation(history, base_date, invalidation_level, invalidation_trigger, max_days) ==
    LET After(bar) == bar.date > base_date
        later == SelectSeq(history, After)
        future_data == SubSeq(later, 1, IF Len(later) < max_days THEN Len(later)
                                        ELSE max_days)
        Below(bar) == bar.close < Val(invalidation_level)
        Above(bar) == bar.close > Val(invalidation_level)
        breaches == IF TriggerHas(invalidation_trigger, "below")
                    THEN SelectSeq(future_data, Below)
                    ELSE SelectSeq(future_data, Above)
    IN  IF invalidation_level = None THEN [was_inv |-> FALSE, inv_date |-> None]
        ELSE IF future_data = <<>> THEN [was_inv |-> FALSE, inv_date |-> None]
        ELSE IF ~TriggerHas(invalidation_trigger, "below")
                /\ ~TriggerHas(invalidation_trigger, "above")
        THEN [was_inv |-> FALSE, inv_date |-> None]
        ELSE IF breaches # <<>> THEN [was_inv |-> TRUE, inv_date |-> Num(breaches[1].date)]
        ELSE [was_inv |-> FALSE, inv_date |-> None]

\* update_actuals on one row: the invalidation is checked when
\* was_invalidated is still empty and the row has an invalidation level
update_actuals_row(row, history) ==
    IF row.was_invalidated = None /\ row.invalidation_level # None
    THEN LET chk == check_invalidation(history, row.date, row.invalidation_level,
                                       row.invalidation_trigger, MAX_DAYS)
         IN  [row EXCEPT !.was_invalidated = <<chk.was_inv>>,
                         !.invalidation_date = IF chk.was_inv THEN chk.inv_date ELSE @]
    ELSE row

\* update_actuals(): every row of the log against its metal's history
update_actuals(log, history) ==
    [k \in 1..Len(log) |-> update_actuals_row(log[k], history)]

\* the SMA200 logged as invalidation level, and the closes around it
Level == 1900 * PCT
BarCloses == {Level - 1, Level, Level + 1}
\* bars in the history file, and how many of the appended ones close off
\* the level
MaxLogBars == 23
MaxMoves == 2

Moves(history) ==
    LET Off(bar) == bar.date > 0 /\ bar.close # Level IN Len(SelectSeq(history, Off))

\* a prediction logged on date 0, the last bar of the history
InvalInit ==
    /\ \E regime \in {"uptrend", "downtrend", "range"}, sma200 \in {None, Num(Level)} :
         prediction_log = <<PredictionRecord(0, "gold", Num(Level + 50 * PCT), regime, sma200)>>
    /\ price_history = <<[date |-> 0, close |-> Level + 50 * PCT]>>
    /\ log_sessions = <<>>
    /\ pc = "logged"
    /\ EarlierIdle /\ DirIdle

\* the daily download appends the next trading day's bar
AppendBar ==
    /\ Len(price_history) < MaxLogBars
    /\ \E close \in BarCloses :
         /\ close # Level => Moves(price_history) < MaxMoves
         /\ price_history' = Append(price_history,
                [date |-> price_history[Len(price_history)].date + 1, close |-> close])
    /\ pc' = "appended"
    /\ UNCHANGED <<prediction_log, log_sessions, earliervars, dirvars>>

\* a call of update_actuals(): load, update every row, save
UpdateActuals ==
    /\ prediction_log' = update_actuals(prediction_log, price_history)
    /\ pc' = "updated"
    /\ UNCHANGED <<price_history, log_sessions, earliervars, dirvars>>

InvalNext ==
    \/ AppendBar
    \/ UpdateActuals

SpecInval == InvalInit /\ [][InvalNext]_vars

-----------------------------------------------------------------------------
(* Claims about the walker (specification Spec) *)

\* C1: no look-ahead.  For a date D and two full histories that agree on
\* every bar dated <= D, compute_state_for_date returns for D the same close,
\* regime, momentum, participation, tailwind and positioning, hence the same
\* state key, whatever bars either history holds after D (and it returns no
\* state for the one exactly when it returns none for the other).
C1_NoLookAhead ==
    LET UpTo(h) == {k \in 1..Len(h) : h[k].date <= target_date}
        Agree   == /\ UpTo(full_history) = UpTo(other_history)
                   /\ \A k \in UpTo(full_history) : full_history[k] = other_history[k]
        Key(st) == encode_state_hash(st.regime, st.momentum, st.participation,
                                     PyNone, PyNone, FALSE)
    IN  (state_a # "pending" /\ state_b # "pending" /\ Agree) =>
            /\ Len(state_a) = Len(state_b)
            /\ Len(state_a) = 1 =>
                 /\ state_a[1].close = state_b[1].close
                 /\ state_a[1].regime = state_b[1].regime
                 /\ state_a[1].momentum = state_b[1].momentum
                 /\ state_a[1].participation = state_b[1].participation
                 /\ state_a[1].tailwind = state_b[1].tailwind
                 /\ state_a[1].positioning = state_b[1].positioning
                 /\ Key(state_a[1]) = Key(state_b[1])

\* both states are computed for a warm date, and the two histories differ in
\* length and in a bar after that date
C1_Witness ==
    /\ state_a # "pending"
    /\ state_b # "pending"
    /\ Len(state_b) = 1
    /\ Len(other_history) # Len(full_history)
    /\ \E k \in 1..Len(other_history) :
         /\ other_history[k].date > target_date
         /\ other_history[k].close = 999
    /\ \E k \in 1..Len(full_history) : full_history[k].date > target_date

C3_ForwardReturns ==
    \A r \in 1..Len(records) :
        LET n   == Len(full_history)
            p   == CHOOSE k \in 1..n : full_history[k].date = records[r].date
            idx == p - 1
            Expected(h) ==
                IF idx + h >= n THEN <<>>
                ELSE LET num == (full_history[p + h].close - full_history[p].close)
                                * 10000
                         den == full_history[p].close
                     IN  <<IF num >= 0 THEN num \div den ELSE -((-num) \div den)>>
        IN  /\ records[r].fwd_5d_return  = Expected(5)
            /\ records[r].fwd_10d_return = Expected(10)
            /\ records[r].fwd_20d_return = Expected(20)

\* a record whose 5-bar return exists and is not zero while its 20-bar return
\* is null
C3_Witness ==
    \E r \in 1..Len(records) :
        /\ Len(records[r].fwd_5d_return) = 1
        /\ records[r].fwd_5d_return # <<0>>
        /\ records[r].fwd_10d_return # <<>>
        /\ records[r].fwd_20d_return = <<>>

\* C4: for a record at bar index idx, fwd_5d_mae / fwd_5d_mfe are the minimum
\* and maximum percent excursion of close over exactly the bars idx..idx+5
\* (fwd_20d_mae / fwd_20d_mfe over idx..idx+20), and they are null whenever
\* bar idx+5 (resp. idx+20) does not exist.
C4_ExcursionWindows ==
    \A r \in 1..Len(records) :
        LET n   == Len(full_history)
            p   == CHOOSE k \in 1..n : full_history[k].date = records[r].date
            idx == p - 1
            Pct(c) == LET num == (c - full_history[p].close) * 10000
                          den == full_history[p].close
                      IN  IF num >= 0 THEN num \div den ELSE -((-num) \div den)
            Window(w) == {full_history[k].close : k \in p..(p + w)}
            Lowest(w)  == CHOOSE c \in Window(w) : \A x \in Window(w) : c <= x
            Highest(w) == CHOOSE c \in Window(w) : \A x \in Window(w) : c >= x
            Mae(w) == IF idx + w >= n THEN <<>> ELSE <<Pct(Lowest(w))>>
            Mfe(w) == IF idx + w >= n THEN <<>> ELSE <<Pct(Highest(w))>>
        IN  /\ records[r].fwd_5d_mae  = Mae(5)
            /\ records[r].fwd_5d_mfe  = Mfe(5)
            /\ records[r].fwd_20d_mae = Mae(20)
            /\ records[r].fwd_20d_mfe = Mfe(20)

\* C5: when the full history cannot be loaded or holds fewer than
\* WARMUP_DAYS + FORWARD_WINDOW (240) bars, run_backtest fails before any
\* date is walked and returns no record.
C5_InsufficientHistoryFails ==
    (~loadable \/ Len(full_history) < 240) =>
        /\ pc \in {"init", "insufficient"}
        /\ observation_dates = <<>>
        /\ i = 0
        /\ records = <<>>
        /\ skipped = 0

\* the run over a loaded history of 239 bars has failed
C5_Witness ==
    /\ loadable
    /\ Len(full_history) = 239
    /\ pc = "insufficient"

-----------------------------------------------------------------------------
(* Claims about the state encoder (specification SpecEnc) *)

C27_EncodersAgree ==
    LET Names == {"uptrend", "downtrend", "range", "sideways", "accelerating",
                  "cooling", "diverging", "steady", "confirming", "thinning",
                  "distribution", "accumulation", "neutral", "supportive",
                  "hostile", "mixed", "crowded_long", "washed_out",
                  "elevated_long", "light_positioning", "unknown", "bogus", ""}
    IN  /\ \A key \in Names :
              /\ regime_code(key) = fe_regime_code(key)
              /\ momentum_code(key) = fe_momentum_code(key)
              /\ participation_code(key) = fe_participation_code(key)
              /\ tailwind_code(key) = fe_tailwind_code(key)
              /\ positioning_code_full(key) = fe_positioning_code_full(key)
        /\ (pc = "enc" /\ keys.runner # <<>> /\ keys.live # <<>>) =>
              keys.runner = keys.live

\* both encoders have encoded a wrongly cased regime, an empty momentum, an
\* unrecognized participation and the optional pillars
C27_Witness ==
    /\ pc = "enc"
    /\ market_a.regime = "UPTREND" /\ market_a.momentum = ""
    /\ market_a.participation = "bogus"
    /\ market_a.tailwind = "Hostile" /\ market_a.positioning = "CROWDED_LONG"
    /\ keys.runner # <<>>
    /\ keys.live # <<>>
    /\ keys.live[1].key3 = "Ru_Mx_Px"
    /\ keys.live[1].key5 = "Ru_Mx_Px_Th_Ccl"
    /\ keys.runner[1].key5 = "Ru_Mx_Px_Th_Ccl"

-----------------------------------------------------------------------------
(* Claims about the aggregator (specification SpecAgg) *)

\* C7: aggregate_by_state uses only the records with valid = TRUE, produces
\* at most one row per state key, sets n_samples to the number of valid
\* records carrying that key, and produces no row whose n_samples is below
\* min_samples (default 10).
C7_ValidOnlyMinSamples ==
    pc = "agg_done" =>
        LET ValidOf(key) == {k \in 1..Len(backtest_df) :
                                /\ backtest_df[k].valid
                                /\ backtest_df[k].state_hash = key}
            Returns5d(key) == {backtest_df[k].fwd_5d_return[1] :
                                 k \in {j \in ValidOf(key) :
                                          Len(backtest_df[j].fwd_5d_return) = 1}}
        IN  /\ \A a, b \in 1..Len(agg_df) :
                 agg_df[a].state_hash = agg_df[b].state_hash => a = b
            /\ \A a \in 1..Len(agg_df) :
                 /\ agg_df[a].n_samples = Cardinality(ValidOf(agg_df[a].state_hash))
                 /\ agg_df[a].n_samples >= min_samples
                 /\ \A x \in Returns5d(agg_df[a].state_hash) :
                      /\ <<x>> # agg_df[a].max_5d => x < agg_df[a].max_5d[1]
                      /\ <<x>> # agg_df[a].min_5d => x > agg_df[a].min_5d[1]
                 /\ Returns5d(agg_df[a].state_hash) # {} =>
                      /\ agg_df[a].max_5d[1] \in Returns5d(agg_df[a].state_hash)
                      /\ agg_df[a].min_5d[1] \in Returns5d(agg_df[a].state_hash)

\* an aggregation with the default min_samples of a file that holds late
\* records: one key has exactly 10 valid records and a row, the other key
\* has valid records but fewer than 10 and no row
C7_Witness ==
    /\ pc = "agg_done"
    /\ min_samples = 10
    /\ Len(agg_df) = 1
    /\ agg_df[1].n_samples = 10
    /\ \E k \in 1..Len(backtest_df) :
         ~backtest_df[k].valid /\ backtest_df[k].state_hash = agg_df[1].state_hash
    /\ \E k \in 1..Len(backtest_df) :
         backtest_df[k].valid /\ backtest_df[k].state_hash # agg_df[1].state_hash

\* C9: every row produced by aggregate_by_state has hit_rate_5d, hit_rate_10d
\* and hit_rate_20d in [0, 100] and confidence_score in [0, 100].
C9_RatesAndScoreInRange ==
    pc = "agg_done" =>
        \A a \in 1..Len(agg_df) :
            /\ 0 <= agg_df[a].hit_rate_5d  /\ agg_df[a].hit_rate_5d  <= 10000
            /\ 0 <= agg_df[a].hit_rate_10d /\ agg_df[a].hit_rate_10d <= 10000
            /\ 0 <= agg_df[a].hit_rate_20d /\ agg_df[a].hit_rate_20d <= 10000
            /\ 0 <= agg_df[a].confidence_score /\ agg_df[a].confidence_score <= 10000

\* two rows, one with a hit rate of 100 and one with a hit rate of 0
C9_Witness ==
    /\ pc = "agg_done"
    /\ Len(agg_df) = 2
    /\ \E a \in 1..2 : agg_df[a].hit_rate_5d = 10000 /\ agg_df[a].n_samples > 1
    /\ \E a \in 1..2 : agg_df[a].hit_rate_5d = 0
    /\ \E a \in 1..2 : agg_df[a].hit_rate_10d \notin {0, 10000}

-----------------------------------------------------------------------------
(* Claims about the confidence score (specification SpecConf) *)

\* C10: confidence_score = min(40, 0.4 * n_samples) + consistency
\* + min(30, 0.6 * |hit_rate_5d - 50|), clamped to [0, 100], where
\* consistency = max(0, 30 - min(5 * |std_5d / mean_5d|, 30)) and is the
\* fallback 15 when mean_5d is approximately 0 (|mean_5d| <= 0.01) or std_5d
\* is 0; for n_samples = 50, std_5d = 2.0, mean_5d = 1.0, hit_rate_5d = 62
\* the components are 20, 20 and 7.2 and the total is 47.2.  Scores, rates
\* and returns are in hundredths.
C10_ConfidenceFormula ==
    pc = "conf_done" =>
        \A a \in 1..Len(agg_df) :
            LET row  == agg_df[a]
                n    == row.n_samples
                mean == row.mean_5d[1]
                absmean == IF mean < 0 THEN -mean ELSE mean
                hr   == row.hit_rate_5d
                dist == IF hr < 5000 THEN 5000 - hr ELSE hr - 5000
                sample == IF 40 * n < 4000 THEN 40 * n ELSE 4000
                hrpart == IF (6 * dist) \div 10 < 3000 THEN (6 * dist) \div 10 ELSE 3000
                cv5    == (500 * row.std_5d[1]) \div absmean
                consistency ==
                    IF absmean <= 1 \/ row.std_5d = <<0>> THEN 1500
                    ELSE IF cv5 < 3000 THEN 3000 - cv5 ELSE 0
                total == sample + consistency + hrpart
                clamped == IF total > 10000 THEN 10000
                           ELSE IF total < 0 THEN 0 ELSE total
            IN  /\ Len(row.std_5d) = 1 => row.confidence_score = clamped
                /\ (n = 50 /\ row.std_5d = <<200>> /\ mean = 100 /\ hr = 6200)
                     => /\ sample = 2000 /\ consistency = 2000 /\ hrpart = 720
                        /\ row.confidence_score = 4720

\* the row of the example has been scored
C10_Witness ==
    /\ pc = "conf_done"
    /\ agg_df[1].n_samples = 50
    /\ agg_df[1].std_5d = <<200>>
    /\ agg_df[1].mean_5d = <<100>>
    /\ agg_df[1].hit_rate_5d = 6200
    /\ agg_df[1].confidence_score = 4720

-----------------------------------------------------------------------------
(* Claims about the expectation server (specification SpecServe) *)

\* C8: get_forward_expectations does not raise for a missing table or a
\* missing key.  With no aggregated table it returns has_data = FALSE without
\* total_states_available; with a table that lacks the live state's key it
\* returns has_data = FALSE with total_states_available equal to the number
\* of rows of the table (50 for a table of 50 keys); the caller can tell the
\* two outcomes apart.
C8_NoDataOutcomes ==
    (pc = "serve" /\ response # <<>>) =>
        LET r == response[1]
            TableKeys == {agg_file.rows[k].state_hash : k \in 1..Len(agg_file.rows)}
            NotComputed == /\ r.has_data = FALSE
                           /\ "total_states_available" \notin DOMAIN r
            Rare == /\ r.has_data = FALSE
                    /\ "total_states_available" \in DOMAIN r
                    /\ r.total_states_available = Len(agg_file.rows)
        IN  /\ "has_data" \in DOMAIN r
            /\ ~agg_file.exists => NotComputed
            /\ (agg_file.exists /\ r.state_hash \notin TableKeys) => Rare
            /\ (agg_file.exists /\ r.state_hash \notin TableKeys
                /\ Len(agg_file.rows) = 50) => r.total_states_available = 50
            /\ ~(NotComputed /\ Rare)

\* a table of 50 keys was asked for a key it lacks
C8_Witness ==
    /\ pc = "serve"
    /\ agg_file.exists
    /\ Len(agg_file.rows) = 50
    /\ Cardinality({agg_file.rows[k].state_hash : k \in 1..50}) = 50
    /\ response # <<>>
    /\ response[1].has_data = FALSE
    /\ response[1].total_states_available = 50

-----------------------------------------------------------------------------
\* C11: the edge class of every row is the first match of the table
\* strong_bullish (hr >= 60, mean > 0.5), bullish (hr >= 55, mean > 0.2),
\* strong_bearish (hr <= 40, mean < -0.5), bearish (hr <= 45, mean < -0.2),
\* asymmetric_bullish (rr > 1.5, mean > 0), asymmetric_bearish (rr > 1.5,
\* mean < 0), else neutral; a row meeting a hit-rate/mean rule is never
\* asymmetric or neutral, whatever its risk/reward.
C11_EdgeClassTable ==
    pc = "edge_done" =>
        \A k \in 1..Len(agg_df) :
            LET row  == agg_df[k]
                hr   == row.hit_rate_5d
                mean == row.mean_5d
                rr   == row.risk_reward_5d
                sbull == hr >= 6000 /\ Gt(mean, Num(50))
                bull  == hr >= 5500 /\ Gt(mean, Num(20))
                sbear == hr <= 4000 /\ Lt(mean, Num(-50))
                bear  == hr <= 4500 /\ Lt(mean, Num(-20))
                abull == Gt(rr, Num(150)) /\ Gt(mean, Num(0))
                abear == Gt(rr, Num(150)) /\ Lt(mean, Num(0))
            IN  /\ sbull => row.edge_class = "strong_bullish"
                /\ (~sbull /\ bull) => row.edge_class = "bullish"
                /\ (~sbull /\ ~bull /\ sbear) => row.edge_class = "strong_bearish"
                /\ (~sbull /\ ~bull /\ ~sbear /\ bear) => row.edge_class = "bearish"
                /\ (~sbull /\ ~bull /\ ~sbear /\ ~bear /\ abull)
                       => row.edge_class = "asymmetric_bullish"
                /\ (~sbull /\ ~bull /\ ~sbear /\ ~bear /\ ~abull /\ abear)
                       => row.edge_class = "asymmetric_bearish"
                /\ (~sbull /\ ~bull /\ ~sbear /\ ~bear /\ ~abull /\ ~abear)
                       => row.edge_class = "neutral"
                /\ (sbull \/ bull \/ sbear \/ bear)
                       => row.edge_class \notin {"asymmetric_bullish", "asymmetric_bearish",
                                                "neutral"}

\* a row that meets the bearish hit-rate rule and has risk/reward above 1.5
C11_Witness ==
    /\ pc = "edge_done"
    /\ \E k \in 1..Len(agg_df) :
          /\ agg_df[k].hit_rate_5d <= 4500
          /\ Lt(agg_df[k].mean_5d, Num(-20))
          /\ Gt(agg_df[k].risk_reward_5d, Num(150))
          /\ agg_df[k].edge_class \in {"bearish", "strong_bearish"}

-----------------------------------------------------------------------------
\* C12: with price, both averages, the slope and ADX present, classify_regime
\* gives range whenever ADX < 18 or (price within 3% of the 200-average, taken
\* strictly, and |slope| <= 0.2), whatever else holds; otherwise uptrend when
\* price is above the 200-average with ADX > 18 (the full uptrend rule is a
\* case of it), downtrend when price is below with ADX > 18, else range; the
\* snapshot price 110, 200-average 100, 50-average 105, slope +2.0, ADX 25
\* is an uptrend.
C12_RegimePrecedence ==
    pc = "pillar_done" =>
        LET ind   == live_indicators
            price == IF IsNum(ind.spot_price) THEN ind.spot_price ELSE ind.last_close
            known == /\ IsNum(price) /\ IsNum(ind.sma200) /\ IsNum(ind.sma50)
                     /\ IsNum(ind.sma50_slope) /\ IsNum(ind.adx)
            px    == Val(price)
            s200  == Val(ind.sma200)
            slope == Val(ind.sma50_slope)
            adxv  == Val(ind.adx)
            near  == Abs(px - s200) * 100 < 3 * s200
            range_first == adxv < 18 * PCT \/ (near /\ Abs(slope) <= 20)
            regime == live_pillars.regime
        IN  known =>
              /\ range_first => regime = "range"
              /\ (~range_first /\ px > s200 /\ adxv > 18 * PCT) => regime = "uptrend"
              /\ (~range_first /\ px < s200 /\ adxv > 18 * PCT) => regime = "downtrend"
              /\ (~range_first /\ (px = s200 \/ adxv = 18 * PCT)) => regime = "range"
              /\ (px = 110 * PCT /\ s200 = 100 * PCT /\ Val(ind.sma50) = 105 * PCT
                    /\ slope = 2 * PCT /\ adxv = 25 * PCT) => regime = "uptrend"

\* price above the 200-average, 50-average above it, slope positive, ADX
\* above 18, and still a range: price is within 3% and the slope is flat
C12_Witness ==
    /\ pc = "pillar_done"
    /\ live_pillars.regime = "range"
    /\ live_indicators.spot_price = None
    /\ Gt(live_indicators.last_close, live_indicators.sma200)
    /\ Gt(live_indicators.sma50, live_indicators.sma200)
    /\ Gt(live_indicators.sma50_slope, Num(0))
    /\ Gt(live_indicators.adx, Num(18 * PCT))

\* C13: whenever the divergence input reports bearish or bullish the momentum
\* phase is "diverging" with that divergence type, whatever the histogram
\* slope, the RSI direction and the price trend; whenever the phase is not
\* "diverging" the divergence type is null.
C13_DivergenceOverrides ==
    pc = "pillar_done" =>
        /\ live_indicators.rsi_divergence \in {"bearish", "bullish"}
              => /\ live_pillars.momentum.phase = "diverging"
                 /\ live_pillars.momentum.divergence_type = live_indicators.rsi_divergence
        /\ live_pillars.momentum.phase # "diverging"
              => live_pillars.momentum.divergence_type = "None"

\* a bearish divergence while the histogram and the RSI both rise in an uptrend
C13_Witness ==
    /\ pc = "pillar_done"
    /\ live_indicators.rsi_divergence = "bearish"
    /\ live_indicators.macd_histogram_slope = "rising"
    /\ live_indicators.rsi_momentum.direction = "rising"
    /\ live_indicators.trend = "uptrend"
    /\ live_pillars.momentum = [phase |-> "diverging", divergence_type |-> "bearish"]

\* C14: for every percentile p in 0..100 supplied by cot_data without an
\* error, the positioning pillar is crowded_long if p > 80, washed_out if
\* p < 20, elevated_long if 65 < p <= 80, light_positioning if 20 <= p < 35,
\* neutral otherwise; it is "unknown" only when no percentile is supplied.
C14_PositioningBuckets ==
    (pc = "pillar_done" /\ live_cot.present /\ ~live_cot.error) =>
        LET a == live_cot.managed_money_percentile
            b == live_cot.mm_percentile
            Bucket(q) == IF q > 80 THEN "crowded_long"
                         ELSE IF q < 20 THEN "washed_out"
                         ELSE IF q > 65 THEN "elevated_long"
                         ELSE IF q < 35 THEN "light_positioning"
                         ELSE "neutral"
        IN  /\ (IsNum(a) /\ b \in {None, a}) => live_pillars.positioning = Bucket(Val(a))
            /\ (a = None /\ IsNum(b)) => live_pillars.positioning = Bucket(Val(b))
            /\ live_pillars.positioning = "unknown" => (a = None /\ b = None)

\* C15: when an input a pillar needs is null or absent (ADX or the 50-average
\* slope for regime, the histogram slope or the RSI direction for momentum,
\* the status for tailwind, the volume ratio for participation, the
\* percentile for positioning) that pillar is "unknown", and every other
\* pillar is classified as it is with the input present.
C15_MissingInputOnlyItsPillar ==
    pc = "pillar_done" =>
        LET ind == live_indicators
            Same(other, pillars) == \A f \in pillars : other[f] = live_pillars[f]
            WithAdx == get_five_pillar_analysis([ind EXCEPT !.adx = Num(25 * PCT)],
                                                live_tailwind, live_cot)
            WithSlope == get_five_pillar_analysis([ind EXCEPT !.sma50_slope = Num(2 * PCT)],
                                                  live_tailwind, live_cot)
            WithHist == get_five_pillar_analysis([ind EXCEPT !.macd_histogram_slope = "rising"],
                                                 live_tailwind, live_cot)
            WithDir == get_five_pillar_analysis([ind EXCEPT !.rsi_momentum.direction = "rising"],
                                                live_tailwind, live_cot)
            WithVolume == get_five_pillar_analysis(
                              [ind EXCEPT !.up_down_volume = BaseIndicators.up_down_volume],
                              live_tailwind, live_cot)
            WithStatus == get_five_pillar_analysis(ind, BacktestTailwind, live_cot)
            WithPercentile == get_five_pillar_analysis(ind, live_tailwind,
                                  [present |-> TRUE, error |-> FALSE,
                                   managed_money_percentile |-> Num(50),
                                   mm_percentile |-> None])
        IN  /\ ind.adx \in {None, Absent}
                  => /\ live_pillars.regime = "unknown"
                     /\ Same(WithAdx, {"momentum", "participation", "tailwind", "positioning"})
            /\ ind.sma50_slope \in {None, Absent}
                  => /\ live_pillars.regime = "unknown"
                     /\ Same(WithSlope, {"momentum", "participation", "tailwind", "positioning"})
            /\ ind.macd_histogram_slope \in {PyNone, Missing}
                  => /\ live_pillars.momentum.phase = "unknown"
                     /\ Same(WithHist, {"regime", "participation", "tailwind", "positioning"})
            /\ ind.rsi_momentum.direction = Missing
                  => /\ live_pillars.momentum.phase = "unknown"
                     /\ Same(WithDir, {"regime", "participation", "tailwind", "positioning"})
            /\ ind.up_down_volume.error
                  => /\ live_pillars.participation = "unknown"
                     /\ Same(WithVolume, {"regime", "momentum", "tailwind", "positioning"})
            /\ live_tailwind.status \in {PyNone, Missing}
                  => /\ live_pillars.tailwind = "unknown"
                     /\ Same(WithStatus, {"regime", "momentum", "participation", "positioning"})
            /\ (~live_cot.present \/ live_cot.error
                  \/ (live_cot.managed_money_percentile = None /\ live_cot.mm_percentile = None))
                  => /\ live_pillars.positioning = "unknown"
                     /\ Same(WithPercentile, {"regime", "momentum", "participation", "tailwind"})

\* C16: for every non-empty OHLCV series compute_indicators_from_df returns a
\* snapshot and not an error, and an indicator whose lookback exceeds the
\* number of bars (the 20-, 50- and 200-period averages, the 50-average slope
\* below 70 bars) is null in it, never a numeric default; only an empty
\* series is an error.
C16_ShortSeriesGiveNulls ==
    pc = "ind_done" =>
        LET n   == Len(full_history)
            ind == live_indicators
        IN  /\ ind.error <=> n = 0
            /\ ~ind.error =>
                  /\ n < 20 => ind.sma20 = None
                  /\ n < 50 => ind.sma50 = None
                  /\ n < 200 => ind.sma200 = None
                  /\ n < 70 => ind.sma50_slope = None

-----------------------------------------------------------------------------
(* Claims about the aggregation job and its reader (specification SpecMain) *)

\* C17: while save_aggregated_results rebuilds the table, every read by
\* load_aggregated_stats returns without raising and yields either the
\* complete table of the last finished save or the complete table being
\* saved, never an empty or partially written one.
C17_ReaderSeesWholeTable ==
    [][loaded_stats' # loaded_stats =>
         /\ ~loaded_stats'.raised
         /\ \/ loaded_stats'.stats = load_aggregated_stats(old_file)
            \/ /\ pc = "main_writing"
               /\ loaded_stats'.stats = <<agg_df>>]_vars

\* C18: when an aggregation run has completed, the persisted table holds
\* exactly the rows aggregate_by_state gives for the current Observation
\* Records, also when no key reaches min_samples (then it holds no row).
C18_TableIsCurrentAggregation ==
    pc = "main_done" =>
        (IF agg_file.exists THEN agg_file.rows ELSE <<>>)
            \in aggregate_by_state(backtest_df, min_samples)

-----------------------------------------------------------------------------
(* Claims about the walk over a history with a gap (specification SpecGap) *)

\* C19: in run_backtest, when computing the state of a walked date fails
\* (the indicator computation or the pillar analysis raises or returns an
\* error), that date is counted as skipped and nothing else happens: the
\* walk goes on to the next date and the records made so far are kept.
C19_FailureIsSkipOfThatDate ==
    [][(/\ pc = "walk"
        /\ i < Len(observation_dates)
        /\ LET d == observation_dates[i + 1] IN
           \/ compute_state_for_date_raises(full_history, gap_date, d)
           \/ compute_state_for_date(full_history, d) = None)
       => /\ pc' = "walk"
          /\ i' = i + 1
          /\ skipped' = skipped + 1
          /\ records' = records]_vars

-----------------------------------------------------------------------------
(* Claims about what the expectation server conditions on (SpecServe) *)

\* C20: the response depends on the live state only through regime,
\* momentum and participation: every live state with the same three pillars,
\* looked up in the same table, gets the same has_data, n_samples,
\* confidence_score, edge_class, expectations and risk_metrics, whatever its
\* tailwind and positioning.
C20_ThreePillarKeyOnly ==
    response # <<>> =>
        LET cur == current_five_pillar[1]
            Core(r) == IF r.has_data
                       THEN <<TRUE, r.n_samples, r.confidence_score, r.edge_class,
                              r.expectations, r.risk_metrics>>
                       ELSE <<FALSE>>
        IN  \A other \in LiveStates :
                (/\ other.regime = cur.regime
                 /\ other.momentum.phase = cur.momentum.phase
                 /\ other.participation = cur.participation)
                => Core(get_forward_expectations(other, "gold", agg_file))
                       = Core(response[1])

\* a row was served to a state with hostile tailwind and crowded positioning
C20_Witness ==
    /\ response # <<>>
    /\ response[1].has_data
    /\ current_five_pillar[1].tailwind = "hostile"
    /\ current_five_pillar[1].positioning = "crowded_long"

-----------------------------------------------------------------------------
(* Claims about the risk warnings (specification SpecServe) *)

\* C21: the warnings of a response are sorted high-first: no warning of
\* severity medium or low precedes a high one, and no low precedes a medium.
C21_WarningsSortedHighFirst ==
    (response # <<>> /\ response[1].has_data) =>
        LET w == response[1].warnings
            Rank(x) == CASE x.severity = "high" -> 0
                         [] x.severity = "medium" -> 1
                         [] x.severity = "low" -> 2
                         [] OTHER -> 3
        IN  \A a, b \in 1..Len(w) : a < b => Rank(w[a]) <= Rank(w[b])

\* a response whose warnings hold all three severities, the first appended
\* one (low_samples) being medium
C21_Witness ==
    /\ response # <<>>
    /\ response[1].has_data
    /\ LET w == response[1].warnings
       IN  /\ \E a \in 1..Len(w) : w[a].severity = "high"
           /\ \E a \in 1..Len(w) : w[a].type = "low_samples"
           /\ \E a \in 1..Len(w) : w[a].severity = "low"

\* C22: pullback_likely (high) is emitted exactly when regime is uptrend,
\* momentum is cooling and participation is thinning or distribution;
\* momentum_weakening (medium) exactly when regime is uptrend, momentum is
\* cooling and participation is anything else; never both, and neither
\* outside an uptrend.
C22_CompoundWarning ==
    (response # <<>> /\ response[1].has_data) =>
        LET w   == response[1].warnings
            cur == current_five_pillar[1]
            Has(type, severity) ==
                \E a \in 1..Len(w) : w[a].type = type /\ w[a].severity = severity
            HasType(type) == \E a \in 1..Len(w) : w[a].type = type
            cooling_uptrend == cur.regime = "uptrend" /\ cur.momentum.phase = "cooling"
            weak == cur.participation \in {"thinning", "distribution"}
        IN  /\ HasType("pullback_likely") <=> (cooling_uptrend /\ weak)
            /\ HasType("momentum_weakening") <=> (cooling_uptrend /\ ~weak)
            /\ HasType("pullback_likely") => Has("pullback_likely", "high")
            /\ HasType("momentum_weakening") => Has("momentum_weakening", "medium")
            /\ ~(HasType("pullback_likely") /\ HasType("momentum_weakening"))

\* a row was served to a cooling uptrend with thinning participation
C22_Witness ==
    /\ response # <<>>
    /\ response[1].has_data
    /\ current_five_pillar[1].regime = "uptrend"
    /\ current_five_pillar[1].momentum.phase = "cooling"
    /\ current_five_pillar[1].participation = "thinning"
    /\ \E a \in 1..Len(response[1].warnings) :
          response[1].warnings[a].type = "pullback_likely"

-----------------------------------------------------------------------------
(* Claims about the direction label (specification SpecDir) *)

\* C23: the label of a mean return m is strongly_positive for m > 1.0,
\* positive for 0.25 < m <= 1.0, flat for -0.25 <= m <= 0.25, negative for
\* -1.0 <= m < -0.25 and strongly_negative for m < -1.0.
C23_DirectionThresholds ==
    (pc = "dir_done" /\ IsNum(live_mean)) =>
        LET m == Val(live_mean) IN
        live_direction =
            (IF m > 100 THEN "strongly_positive"
             ELSE IF m > 25 THEN "positive"
             ELSE IF m >= -25 THEN "flat"
             ELSE IF m >= -100 THEN "negative"
             ELSE "strongly_negative")

-----------------------------------------------------------------------------
(* Claims about the expectancy (specification SpecAgg) *)

\* C24: in every aggregated row expectancy_5d is the blend
\* hit_rate * avg_mfe_5d + (1 - hit_rate) * avg_mae_5d with hit_rate =
\* hit_rate_5d / 100 (to the last kept digit), and
\* avg_mae_5d <= expectancy_5d <= avg_mfe_5d.
C24_ExpectancyBoundsEveryRow ==
    pc = "agg_done" =>
        \A a \in 1..Len(agg_df) :
            LET row == agg_df[a]
                blend == row.hit_rate_5d * Val(row.avg_mfe_5d)
                         + (100 * PCT - row.hit_rate_5d) * Val(row.avg_mae_5d)
            IN  /\ Le(row.avg_mae_5d, row.expectancy_5d)
                /\ Le(row.expectancy_5d, row.avg_mfe_5d)
                /\ Abs(100 * PCT * Val(row.expectancy_5d) - blend) < 100 * PCT

\* what does hold: in every aggregated row whose avg_mae_5d and avg_mfe_5d
\* are numbers, expectancy_5d is the blend and lies between them; in a row
\* whose excursions are all NaN the expectancy is NaN
ExpectancyBlendOnNumericRows ==
    pc = "agg_done" =>
        \A a \in 1..Len(agg_df) :
            LET row == agg_df[a] IN
            IF IsNum(row.avg_mae_5d) /\ IsNum(row.avg_mfe_5d)
            THEN LET blend == row.hit_rate_5d * Val(row.avg_mfe_5d)
                              + (100 * PCT - row.hit_rate_5d) * Val(row.avg_mae_5d)
                 IN  /\ IsNum(row.expectancy_5d)
                     /\ Abs(100 * PCT * Val(row.expectancy_5d) - blend) < 100 * PCT
                     /\ Val(row.avg_mae_5d) <= Val(row.expectancy_5d)
                     /\ Val(row.expectancy_5d) <= Val(row.avg_mfe_5d)
            ELSE row.expectancy_5d = NaN

-----------------------------------------------------------------------------
(* Claims about a strictly rising series (specification SpecRise) *)

\* C25 as stated: on a strictly rising close series every record the walker
\* emits has positive 5-, 10- and 20-day forward returns, and every
\* aggregated row has hit_rate_5d = 100.
C25_RisingAllPositive ==
    /\ \A r \in 1..Len(records) :
         /\ Gt(records[r].fwd_5d_return, Num(0))
         /\ Gt(records[r].fwd_10d_return, Num(0))
         /\ Gt(records[r].fwd_20d_return, Num(0))
    /\ pc = "rise_done" =>
         \A a \in 1..Len(agg_df) : agg_df[a].hit_rate_5d = 100 * PCT

\* C25, amended: on a strictly rising close series every valid record has
\* positive 5-, 10- and 20-day forward returns; a record of a date less than
\* 20 bars before the end (valid = False) has a positive return for each
\* horizon that fits and null for the others; and every aggregated row has
\* hit_rate_5d = 100.
C25_RisingValidPositive ==
    /\ \A r \in 1..Len(records) :
         LET rec == records[r]
             Pos(v) == Gt(v, Num(0))
         IN  /\ rec.valid => (Pos(rec.fwd_5d_return) /\ Pos(rec.fwd_10d_return)
                              /\ Pos(rec.fwd_20d_return))
             /\ ~rec.valid => /\ rec.fwd_20d_return = None
                              /\ Pos(rec.fwd_5d_return) \/ rec.fwd_5d_return = None
                              /\ Pos(rec.fwd_10d_return) \/ rec.fwd_10d_return = None
    /\ pc = "rise_done" =>
         \A a \in 1..Len(agg_df) : agg_df[a].hit_rate_5d = 100 * PCT

\* a walk that emitted valid and late records and was aggregated into a row
C25_Witness ==
    /\ pc = "rise_done"
    /\ Len(agg_df) > 0
    /\ \E r \in 1..Len(records) : records[r].valid
    /\ \E r \in 1..Len(records) : ~records[r].valid

\* C28: in analyze_participation with price direction up, an up/down volume
\* ratio below 0.9 together with a falling OBV slope (below -0.5) gives the
\* status "distribution".
C28_DistributionWhenUp ==
    (/\ pc = "pillar_done"
     /\ live_indicators.trend = "uptrend"
     /\ ~live_indicators.up_down_volume.error
     /\ RatioLt(live_indicators.up_down_volume.vol_ratio, 9, 10)
     /\ IsNum(live_indicators.obv_slope)
     /\ Lt(live_indicators.obv_slope, Num(-50)))
        => live_pillars.participation = "distribution"

-----------------------------------------------------------------------------
(* Claims about the encoders on any input (specification SpecEncAny) *)

\* C26: encode_state_hash never throws: for every pillar input (None, empty,
\* wrongly cased, unrecognized, not a str) it returns a key, in which every
\* regime, momentum or participation value that is missing or unrecognized
\* has the reserved code x.
C26_EncodeNeverThrows ==
    (pc = "encany" /\ keys.encoder # "") =>
        /\ ~keys.raised
        /\ LET Known(v, names) == v \in names
               base == "R" \o (IF Known(market_a.regime, {"uptrend", "Uptrend"})
                               THEN "u" ELSE "x")
                       \o "_M" \o (IF Known(market_a.momentum, {"steady"})
                                   THEN "s" ELSE "x")
                       \o "_P" \o (IF Known(market_a.participation, {"neutral"})
                                   THEN "n" ELSE "x")
           IN  \E suffix \in {""} \cup {"_T" \o t \o "_C" \o c :
                                          t \in {"m", "h", "x"},
                                          c \in {"wo", "u", "x"}} :
                   keys.key = base \o suffix

-----------------------------------------------------------------------------
(* Claims about the prediction log (specification SpecLog) *)

\* C29: the prediction log is deduplicated on (date, metal): after any
\* sequence of log_prediction and auto_log_daily calls, the calls of two
\* sessions interleaved included, the log has at most one row per
\* (date, metal).
C29_OneRowPerDateAndMetal ==
    pc = "log" =>
        \A j, k \in 1..Len(prediction_log) :
            (prediction_log[j].date = prediction_log[k].date
             /\ prediction_log[j].metal = prediction_log[k].metal) => j = k

-----------------------------------------------------------------------------
(* Claims about the invalidation check (specification SpecInval) *)

\* C30: for a logged prediction with an invalidation level, after any
\* sequence of history appends and update_actuals calls, once the 20 trading
\* bars after the prediction date are in the history and update_actuals has
\* run on them, was_invalidated is True exactly when one of those 20 bars
\* closed beyond the level (below it for an uptrend, above it for a
\* downtrend), and invalidation_date is the first such bar.
C30_InvalidationWithinTwentyBars ==
    (pc = "updated" /\ Len(price_history) > MAX_DAYS) =>
        \A k \in 1..Len(prediction_log) :
            LET row == prediction_log[k]
                Beyond(j) ==
                    /\ price_history[j].date > row.date
                    /\ IF row.invalidation_trigger = "Close below SMA200"
                       THEN price_history[j].close < Val(row.invalidation_level)
                       ELSE price_history[j].close > Val(row.invalidation_level)
                Window == {j \in 1..Len(price_history) :
                              /\ price_history[j].date > row.date
                              /\ price_history[j].date <= row.date + MAX_DAYS}
                Breaches == {j \in Window : Beyond(j)}
            IN  row.invalidation_level # None =>
                    /\ row.was_invalidated = <<Breaches # {}>>
                    /\ Breaches # {} =>
                          /\ row.invalidation_date # None
                          /\ \A j \in Breaches :
                                 Val(row.invalidation_date) <= price_history[j].date
                          /\ \E j \in Breaches :
                                 Val(row.invalidation_date) = price_history[j].date

====
